---- MODULE Spec2Model ----
(***************************************************************************)
(* Model of the ralph-loop orchestrator                                    *)
(* (src/internal/orchestrator/orchestrator.go, src/internal/cli).          *)
(*                                                                         *)
(* One Orchestrator object lives in the process SelfPID.  Its exported     *)
(* methods Start and Stop are called from outside; Start spawns the        *)
(* goroutine runLoop, which spawns one child process per iteration and two *)
(* reader goroutines for the child's stdout and stderr.  A second          *)
(* ralph-loop process (PeerPID) on the same host shares the lock file.     *)
(***************************************************************************)
EXTENDS Integers, Sequences, FiniteSets, TLC

\* ---------------------------------------------------------------- bounds
MaxIter == 4        \* largest config.MaxIterations explored
MaxOut == 2         \* stdout lines a child prints
MaxErr == 1         \* stderr lines a child prints
MaxEvents == 3      \* events a child prints in the event scenarios
MaxText == 5        \* characters of the longest text scanned for markers
MaxLines == 3       \* lines of the largest PRD.md explored

\* ------------------------------------------------------ program constants
SelfPID == 1        \* os.Getpid() of the orchestrator under study
PeerPID == 2        \* os.Getpid() of the other ralph-loop process
PeerSessionID == 9  \* uuid.New() drawn by the other process
FailureLimit == 3   \* consecutiveFailures >= 3

VARIABLES
    config,         \* o.config: [MaxIterations]
    running,        \* o.running
    stopCh,         \* o.stopCh: "open" | "closed"
    session,        \* *o.session, NoSession when the pointer is nil
    cmd,            \* o.cmd: "nil" | "built" (Process == nil) | "started"
    startPc,        \* position of the one Start call in flight
    lockPID,        \* Start's local lock.PID
    starts,         \* number of sessions this process created (uuid source)
    loops,          \* runLoop goroutines: sequence of their local state
    child,          \* the child process of the current iteration
    launched,       \* number of children started with cmd.Start
    stdoutLog,      \* stdout lines appended to the iteration's log file
    stderrLog,      \* stderr lines appended to the iteration's log file
    lockFile,       \* content of config.LockFile
    sessionFile,    \* content of config.SessionFile
    sessionFileOk,  \* os.WriteFile(config.SessionFile) succeeds
    logDir,         \* config.LogDir exists
    handoff,        \* entries appended to HANDOFF.md
    prd,            \* content of PRD.md
    procAlive,      \* the orchestrator's process is alive
    peerPc,         \* position of the other ralph-loop process
    peerLockPID,    \* the other process's local lock.PID
    currentSubagents, \* o.currentSubagents: sequence of traces
    stopData,       \* data marshalled by Stop's saveSession, not yet written
    errorMsgs,      \* number of ErrorMsg sent with o.program.Send
    sent            \* messages each reader goroutine of the iteration gave
                    \* to o.program.Send, in that reader's order

vars == <<config, running, stopCh, session, cmd, startPc, lockPID,
          starts, loops, child, launched, stdoutLog, stderrLog, lockFile,
          sessionFile, sessionFileOk, logDir, handoff, prd, procAlive,
          peerPc, peerLockPID, currentSubagents, stopData, errorMsgs, sent>>

\* --------------------------------------------------------------- values
NoSession == [ID |-> 0, Status |-> "nil", Iteration |-> 0,
              TasksCompleted |-> 0, CurrentTask |-> 0, PID |-> 0]

NoLock == [exists |-> FALSE, pid |-> 0, sid |-> 0]

\* stuck says that the child is blocked in a write to a pipe that is full
\* and that no reader empties any more.
NoChild == [alive |-> FALSE, open |-> FALSE, killed |-> FALSE,
            stuck |-> FALSE]

NoResult == [Iteration |-> 0, Status |-> "", Task |-> 0, LogFile |-> 0,
             Subagents |-> <<>>]

NoSent == [stdout |-> <<>>, stderr |-> <<>>]

\* CurrentTask values: 0 is the empty string, BootstrapTask the synthesized
\* "Create PRD.md with task list", n > 0 the title of line n of PRD.md.
BootstrapTask == -1

\* ------------------------------------------------------------- the markers
\* Texts are sequences of characters.  The two markers differ in their
\* middle and share what is around it: "<promise>" is written "p",
\* "</promise>" "q", "COMPLETE" "C" and "BLOCKED" "B".
Alphabet == {"p", "q", "C", "B"}

CompletionToken == <<"p", "C", "q">>

BlockedToken == <<"p", "B", "q">>

\* Every text of at most n characters.
Texts(n) == UNION { [1..k -> Alphabet] : k \in 0..n }

\* contains (interface.go 90-97): the loop over the start positions.
contains(str, substr) ==
    \E i \in 0..(Len(str) - Len(substr)) :
        SubSeq(str, i + 1, i + Len(substr)) = substr

\* A token test that looks at the two ends of the text only.
containsTokenAtEnds(text, token) ==
    /\ Len(text) >= Len(token)
    /\ \/ text = token
       \/ /\ Len(text) > Len(token)
          /\ \/ SubSeq(text, 1, Len(token)) = token
             \/ SubSeq(text, Len(text) - Len(token) + 1, Len(text)) = token

\* containsToken (interface.go 83-88).
containsToken(text, token) ==
    /\ Len(text) >= Len(token)
    /\ \/ text = token
       \/ /\ Len(text) > Len(token)
          /\ \/ SubSeq(text, 1, Len(token)) = token
             \/ SubSeq(text, Len(text) - Len(token) + 1, Len(text)) = token
             \/ contains(text, token)

\* ContainsCompletionToken and ContainsBlockedToken (interface.go 74-81).
ContainsCompletionToken(text) == containsToken(text, CompletionToken)

ContainsBlockedToken(text) == containsToken(text, BlockedToken)

\* strings.Contains of the Go library: some index at which substr starts.
StringsContains(str, substr) ==
    \E i \in 0..(Len(str) - Len(substr)) :
        \A k \in 1..Len(substr) : str[i + k] = substr[k]

\* The second copy of the two functions (part_001 81-88).
AltContainsCompletionToken(text) == StringsContains(text, CompletionToken)

AltContainsBlockedToken(text) == StringsContains(text, BlockedToken)

\* The ToolInput map of a tool-start event, as far as the summary looks at
\* it: for each of the three keys the length of its string value, Absent
\* when the key is missing or its value is not a string.
Absent == -1

NoInput == [command |-> Absent, file_path |-> Absent, prompt |-> Absent]

InputLengths == {Absent, 5, 150}

ToolInputs ==
    [command : InputLengths, file_path : InputLengths,
     prompt : InputLengths]

\* A stdout line: json says whether json.Unmarshal accepts it, evType is
\* the normalized type the backend gives it, complete/blocked say whether
\* the text the scanner may look at (Content of a parsed event, the whole
\* line otherwise) contains the COMPLETE / BLOCKED marker.  Of a parsed
\* event, toolID is ToolID (0 is the empty string), isError is IsError and
\* outLen is len(Content); wireType is the "type" member of the JSON text,
\* wireItem and wireStatus the type and status of its item (variant B),
\* size the length of the line in KiB, input the ToolInput map, text the
\* characters of the line where they are spelled out.
Line(j, t, c, b) ==
    [json |-> j, evType |-> t, complete |-> c, blocked |-> b,
     toolID |-> 0, isError |-> FALSE, outLen |-> 0, wireType |-> "",
     wireItem |-> "", wireStatus |-> "", size |-> 1, input |-> NoInput,
     text |-> <<>>]

StdoutLines ==
    { Line(FALSE, "raw", FALSE, FALSE),
      Line(FALSE, "raw", TRUE, FALSE),
      Line(FALSE, "raw", FALSE, TRUE),
      Line(TRUE, "message", TRUE, FALSE),
      Line(TRUE, "message", FALSE, TRUE),
      Line(TRUE, "tool_start", FALSE, FALSE),
      Line(TRUE, "tool_end", TRUE, TRUE) }

StderrLines ==
    { Line(FALSE, "raw", FALSE, FALSE),
      Line(FALSE, "raw", TRUE, FALSE) }

\* The lines of a child that says no more than its outcome.
BasicOut == { Line(TRUE, "message", TRUE, FALSE),
             Line(FALSE, "raw", FALSE, TRUE) }

\* An unparsed line with the given characters, and what the token test of
\* the stdout reader (lines 383-388) finds in it.
TextLine(text) ==
    [Line(FALSE, "raw", ContainsCompletionToken(text),
          ContainsBlockedToken(text)) EXCEPT !.text = text]

\* A tool-start event with the given ToolInput.
ToolStartWith(input) ==
    [Line(TRUE, "tool_start", FALSE, FALSE) EXCEPT !.input = input]

\* A line of the given length in KiB.
Sized(line, n) == [line EXCEPT !.size = n]

\* Line lengths in KiB: a short line, a line of 10^6 bytes, a line of 2^20.
LineSizes == {1, 1000, 1024}

\* The lines of a child that prints long lines.
LongLines ==
    { Sized(Line(FALSE, "raw", c, FALSE), n) :
        c \in BOOLEAN, n \in LineSizes }

\* PRD.md line kinds: "ai" is `- [ ] 🤖 title`, "human" is `- [ ] 🧑 title`
\* (an unticked box and no robot glyph), "done" is `- [x] 🤖 title`, "text"
\* is any other line without the robot glyph (heading, prose, blank).
LineKinds == {"ai", "human", "done", "text"}

NoPRD == [exists |-> FALSE, lines |-> <<>>]

AgentPRD == [exists |-> TRUE, lines |-> <<"human", "ai">>]

InitPRDs == { NoPRD, AgentPRD }

\* Every PRD.md of at most n lines.
Docs(n) ==
    { [exists |-> TRUE, lines |-> ls] :
        ls \in UNION { [1..k -> LineKinds] : k \in 0..n } }

\* ------------------------------------------------------------ liveness of
\* a process id, as the operating system sees it
PeerLive == peerPc \in {"check", "remove", "create", "running"}

Alive(pid) == \/ pid = SelfPID /\ procAlive
              \/ pid = PeerPID /\ PeerLive

\* process.Signal(sig) of package os: the signal is sent only when sig is a
\* syscall.Signal; any other value, the nil interface included, gives the
\* error "os: unsupported signal type" before the process is looked at.
ProcessSignal(pid, sig) ==
    IF sig = "nil" THEN "os: unsupported signal type"
    ELSE IF Alive(pid) THEN "ok" ELSE "os: process already finished"

\* The signal initSession passes: os.Signal(nil).
LivenessSignal == "nil"

\* A test that takes every recorded owner for a live one.
LockHeldByAny(pid) == pid > 0

\* initSession's test "lock.PID > 0 and FindProcess and Signal succeed":
\* TRUE means Start returns "another ralph-loop is running".
LockHeldByLive(pid) ==
    pid > 0 /\ ProcessSignal(pid, LivenessSignal) = "ok"

\* The session initSession creates.
NewSession(id, pid) ==
    [ID |-> id, Status |-> "running", Iteration |-> 0,
     TasksCompleted |-> 0, CurrentTask |-> 0, PID |-> pid]

\* The lock record initSession writes.
NewLock(pid, sid) == [exists |-> TRUE, pid |-> pid, sid |-> sid]

\* saveSession: what the session file holds after os.WriteFile of s.  A
\* failing write (no space left) has truncated the file and written nothing.
SaveSession(s) == IF sessionFileOk THEN s ELSE NoSession


\* ------------------------------------------------------- completion tokens
\* What the stdout reader does with one line (orchestrator.go 361-389):
\* a line ParseEvent accepts is scanned only when it is a message event,
\* and then in its Content; a line ParseEvent rejects is scanned whole.
ParseOk(line) == line.json

DetectsComplete(line) ==
    IF ParseOk(line) THEN line.evType = "message" /\ line.complete
    ELSE line.complete

DetectsBlocked(line) ==
    IF ParseOk(line) THEN line.evType = "message" /\ line.blocked
    ELSE line.blocked

\* Classification with the precedence of the two markers swapped.
ClassifyBlockedFirst(completionDetected, blockedDetected) ==
    IF blockedDetected THEN "blocked"
    ELSE IF completionDetected THEN "complete"
    ELSE "failed"

\* runIteration's final classification (orchestrator.go 410-416).
Classify(completionDetected, blockedDetected) ==
    IF completionDetected THEN "complete"
    ELSE IF blockedDetected THEN "blocked"
    ELSE "failed"

\* writeHandoff (lines 573-583): the entry appended to HANDOFF.md; the
\* timestamp is left out.
HandoffEntry(task, logFile) == [Task |-> task, LogFile |-> logFile]

\* A failure streak to which a blocked iteration adds.
NextFailuresBlockedCounts(consecutiveFailures, status) ==
    IF status \in {"failed", "blocked"} THEN consecutiveFailures + 1
    ELSE 0

\* A failure streak that a complete or blocked iteration does not reset.
NextFailuresNoReset(consecutiveFailures, status) ==
    IF status = "failed" THEN consecutiveFailures + 1
    ELSE consecutiveFailures

\* runLoop's failure streak after an iteration with the given status.
NextFailures(consecutiveFailures, status) ==
    IF status = "failed" THEN consecutiveFailures + 1
    ELSE IF status \in {"complete", "blocked"} THEN 0
    ELSE consecutiveFailures

\* A test for giving up that is one failure late.
TooManyFailuresLate(consecutiveFailures) == consecutiveFailures > FailureLimit

\* runLoop's test for giving up.
TooManyFailures(consecutiveFailures) == consecutiveFailures >= FailureLimit

\* ----------------------------------------------------------- task selector
SetMin(S) == CHOOSE x \in S : \A y \in S : x <= y

\* checkTasks, line 527: the regexp `^- \[ \] (.+)$` matches the line.
IncompletePattern(line) == line \in {"ai", "human"}

\* checkTasks, line 528: the regexp for the robot glyph matches the line.
AiPattern(line) == line \in {"ai", "done"}

\* A selection that does not look at the checkbox.
AiTasksAnyBox(doc) ==
    { i \in DOMAIN doc.lines : AiPattern(doc.lines[i]) }

\* checkTasks, lines 530-539: the lines appended to aiTasks.
AiTasks(doc) ==
    { i \in DOMAIN doc.lines :
        IncompletePattern(doc.lines[i]) /\ AiPattern(doc.lines[i]) }

\* A checkTasks that ends the session when there is no PRD.md.
checkTasksNoBootstrap(doc) ==
    IF ~doc.exists \/ AiTasks(doc) = {}
    THEN [shouldContinue |-> FALSE, currentTask |-> 0, remaining |-> 0]
    ELSE [shouldContinue |-> TRUE, currentTask |-> SetMin(AiTasks(doc)),
          remaining |-> Cardinality(AiTasks(doc))]

checkTasks(doc) ==
    IF ~doc.exists
    THEN [shouldContinue |-> TRUE, currentTask |-> BootstrapTask, remaining |-> 0]
    ELSE IF AiTasks(doc) = {}
    THEN [shouldContinue |-> FALSE, currentTask |-> 0, remaining |-> 0]
    ELSE [shouldContinue |-> TRUE, currentTask |-> SetMin(AiTasks(doc)),
          remaining |-> Cardinality(AiTasks(doc))]

\* ------------------------------------------------------------ the scanners
\* Token limits of the two bufio.Scanner in KiB: the stdout reader's
\* scanner.Buffer(make([]byte, 1024*1024), 1024*1024) and, for the stderr
\* reader, which sets none, bufio.MaxScanTokenSize = 64 * 1024.
StdoutMaxToken == 1024

StderrMaxToken == 64

\* Capacity of the pipe between the child and a reader, in KiB.
PipeCapacity == 64

\* Scanner.Scan: the line and its newline have to fit in the buffer; when
\* the buffer is full at its maximum without a newline in it, Scan gives
\* bufio.ErrTooLong and returns false.
TokenFits(size, max) == size < max

\* After ErrTooLong the reader has taken at most max KiB of the line; the
\* child is blocked in its write when the rest does not fit in the pipe.
LeavesChildStuck(size, max) == size - max > PipeCapacity

\* ------------------------------------------------------ backend variant A
\* A line of Claude's stream: valid says that json.Unmarshal into
\* ClaudeEvent succeeds, type is its "type" member, payload says that the
\* member the type goes with (message, tool_use, tool_result) is present,
\* id, isError and outLen are the tool id, is_error and len(content) of
\* the payload, complete and blocked say that the text (message content, or
\* the line when it is not JSON) holds the marker.
Wire(v, t, p, id, e, n, c, b) ==
    [valid |-> v, type |-> t, payload |-> p, id |-> id, isError |-> e,
     outLen |-> n, complete |-> c, blocked |-> b]

ToolIDs == {0, 1}

ClaudeEvents ==
    { Wire(FALSE, "", FALSE, 0, FALSE, 0, FALSE, TRUE),
      Wire(TRUE, "assistant", TRUE, 0, FALSE, 0, TRUE, FALSE),
      Wire(TRUE, "error", FALSE, 0, FALSE, 0, FALSE, FALSE),
      Wire(TRUE, "system", FALSE, 0, FALSE, 0, FALSE, FALSE) }
    \union { Wire(TRUE, "tool_use", TRUE, id, FALSE, 0, FALSE, FALSE) :
               id \in ToolIDs }
    \union { Wire(TRUE, "tool_result", TRUE, id, FALSE, 5, FALSE, FALSE) :
               id \in ToolIDs }
    \union { Wire(TRUE, "tool_result", TRUE, id, TRUE, 300, FALSE, FALSE) :
               id \in ToolIDs }

\* A type switch that takes a tool result for the start of a tool.
ClaudeEventTypeResultStarts(type) ==
    CASE type = "assistant" -> "message"
      [] type = "tool_use" -> "tool_start"
      [] type = "tool_result" -> "tool_start"
      [] type = "error" -> "error"
      [] OTHER -> "unknown"

\* ClaudeCLI.ParseEvent, lines 105-136: the switch on event.Type.
ClaudeEventType(type) ==
    CASE type = "assistant" -> "message"
      [] type = "tool_use" -> "tool_start"
      [] type = "tool_result" -> "tool_end"
      [] type = "error" -> "error"
      [] OTHER -> "unknown"

\* ClaudeCLI.ParseEvent, lines 94-139, as the stdout reader sees the line:
\* an error of json.Unmarshal leaves the raw line, otherwise the
\* normalized event with the fields its case fills in.
ClaudeParseEvent(w) ==
    IF ~w.valid
    THEN Line(FALSE, "raw", w.complete, w.blocked)
    ELSE [json |-> TRUE,
          evType |-> ClaudeEventType(w.type),
          complete |-> w.type = "assistant" /\ w.payload /\ w.complete,
          blocked |-> w.type = "assistant" /\ w.payload /\ w.blocked,
          toolID |-> IF w.type \in {"tool_use", "tool_result"} /\ w.payload
                     THEN w.id ELSE 0,
          isError |-> \/ w.type = "error"
                      \/ w.type = "tool_result" /\ w.payload /\ w.isError,
          outLen |-> IF w.type = "tool_result" /\ w.payload
                     THEN w.outLen ELSE 0,
          wireType |-> w.type,
          wireItem |-> "",
          wireStatus |-> "",
          size |-> 1,
          input |-> NoInput,
          text |-> <<>>]

\* ------------------------------------------------------ backend variant B
\* A line of Codex's stream: valid says that json.Unmarshal into CodexEvent
\* succeeds, type is its "type" member, item says that the item member is
\* present ("none" when it is not) and gives the item's type, status the
\* item's status, id its id, outLen the length of its output, complete and
\* blocked say that the text (the item's content text, or the line when it
\* is not JSON) holds the marker.
CodexWire(v, t, it, st, id, n, c, b) ==
    [valid |-> v, type |-> t, item |-> it, status |-> st, id |-> id,
     outLen |-> n, complete |-> c, blocked |-> b]

CodexEvents ==
    { CodexWire(FALSE, "", "none", "", 0, 0, FALSE, TRUE),
      CodexWire(TRUE, "turn.completed", "none", "", 0, 0, FALSE, FALSE),
      CodexWire(TRUE, "error", "none", "", 0, 0, FALSE, FALSE),
      CodexWire(TRUE, "thread.started", "none", "", 0, 0, FALSE, FALSE),
      CodexWire(TRUE, "item.started", "none", "", 0, 0, FALSE, FALSE),
      CodexWire(TRUE, "item.completed", "none", "", 0, 0, FALSE, FALSE),
      CodexWire(TRUE, "item.completed", "agent_message", "completed", 1, 0,
                TRUE, FALSE),
      CodexWire(TRUE, "item.completed", "reasoning", "completed", 1, 0,
                TRUE, FALSE),
      CodexWire(TRUE, "item.completed", "command_execution", "completed",
                1, 5, FALSE, FALSE),
      CodexWire(TRUE, "item.completed", "command_execution", "error",
                1, 300, FALSE, FALSE),
      CodexWire(TRUE, "item.completed", "tool_call", "error",
                1, 5, FALSE, FALSE) }
    \union { CodexWire(TRUE, "item.started", it, "started", 1, 0,
                       FALSE, FALSE) :
               it \in {"command_execution", "tool_call", "agent_message",
                       "reasoning"} }

\* A parseItemCompleted that takes every completed item for a message.
CodexCompletedTypeAllMessages(item) ==
    IF item = "none" THEN "unknown" ELSE "message"

\* CodexCLI.parseItemStarted, lines 139-152: the type it leaves.
CodexStartedType(item) ==
    IF item \in {"command_execution", "tool_call"} THEN "tool_start"
    ELSE "unknown"

\* CodexCLI.parseItemCompleted, lines 155-173: the type it leaves.
CodexCompletedType(item) ==
    CASE item = "agent_message" -> "message"
      [] item \in {"command_execution", "tool_call"} -> "tool_end"
      [] OTHER -> "unknown"

\* CodexCLI.ParseEvent, lines 118-134: the switch on event.Type, over the
\* initial EventTypeUnknown.
CodexEventType(type, item) ==
    CASE type = "item.started" -> CodexStartedType(item)
      [] type = "item.completed" -> CodexCompletedType(item)
      [] type = "turn.completed" -> "turn_complete"
      [] type = "error" -> "error"
      [] OTHER -> "unknown"

\* CodexCLI.ParseEvent, lines 105-136, as the stdout reader sees the line.
CodexParseEvent(w) ==
    IF ~w.valid
    THEN Line(FALSE, "raw", w.complete, w.blocked)
    ELSE LET t == CodexEventType(w.type, w.item) IN
         [json |-> TRUE,
          evType |-> t,
          complete |-> t = "message" /\ w.complete,
          blocked |-> t = "message" /\ w.blocked,
          toolID |-> IF t \in {"tool_start", "tool_end"} THEN w.id ELSE 0,
          isError |-> \/ w.type = "error"
                      \/ t = "tool_end" /\ w.status = "error",
          outLen |-> IF t = "tool_end" THEN w.outLen ELSE 0,
          wireType |-> w.type,
          wireItem |-> w.item,
          wireStatus |-> w.status,
          size |-> 1,
          input |-> NoInput,
          text |-> <<>>]

\* ------------------------------------------------------------------ traces
\* A string is represented by its length: truncate (lines 602-607) gives a
\* string of len bytes, the first kept of them taken from s, followed by
\* "..." when dots is TRUE.
truncateKeepsAll(n, maxLen) == [len |-> n, kept |-> n, dots |-> FALSE]

truncate(n, maxLen) ==
    IF n <= maxLen THEN [len |-> n, kept |-> n, dots |-> FALSE]
    ELSE [len |-> maxLen, kept |-> maxLen - 3, dots |-> TRUE]

OutputLimit == 200

InputLimit == 100

\* extractToolInputSummary, lines 468-484: the summary is the string taken
\* from the key "of" of the input ("" when none is a string).
extractToolInputSummary(input) ==
    IF input.command # Absent
    THEN [of |-> "command", text |-> truncate(input.command, InputLimit)]
    ELSE IF input.file_path # Absent
    THEN [of |-> "file_path",
          text |-> [len |-> input.file_path, kept |-> input.file_path,
                    dots |-> FALSE]]
    ELSE IF input.prompt # Absent
    THEN [of |-> "prompt", text |-> truncate(input.prompt, InputLimit)]
    ELSE [of |-> "", text |-> truncate(0, InputLimit)]

\* The trace processNormalizedEvent builds for a tool-start event (lines
\* 428-434); EndedAt = 0 is the nil pointer.  Times are the number of the
\* stdout line that is being processed.
NewTrace(event, now) ==
    [ID |-> event.toolID, Status |-> "running", StartedAt |-> now,
     EndedAt |-> 0, Duration |-> 0, Output |-> truncate(0, OutputLimit),
     Input |-> extractToolInputSummary(event.input)]

\* The trace completeSubagent works on: the first one with the id.
Matching(traces, toolID) == { i \in DOMAIN traces : traces[i].ID = toolID }

\* A completeSubagent that changes the status and leaves the end time.
completeSubagentNoEnd(traces, toolID, outLen, isError, now) ==
    IF Matching(traces, toolID) = {} THEN traces
    ELSE LET i == SetMin(Matching(traces, toolID)) IN
         [traces EXCEPT ![i] =
            [traces[i] EXCEPT
                !.Status = IF isError THEN "error" ELSE "complete"]]

\* A completeSubagent that records a tool result nobody started.
completeSubagentAdds(traces, toolID, outLen, isError, now) ==
    LET done(t) == [t EXCEPT
                !.EndedAt = now,
                !.Duration = now - t.StartedAt,
                !.Output = truncate(outLen, OutputLimit),
                !.Status = IF isError THEN "error" ELSE "complete"]
    IN IF Matching(traces, toolID) = {}
       THEN Append(traces, done([ID |-> toolID, Status |-> "running",
                                 StartedAt |-> now, EndedAt |-> 0,
                                 Duration |-> 0,
                                 Output |-> truncate(0, OutputLimit),
                                 Input |-> extractToolInputSummary(NoInput)]))
       ELSE LET i == SetMin(Matching(traces, toolID)) IN
            [traces EXCEPT ![i] = done(traces[i])]

\* completeSubagent, lines 447-465: o.currentSubagents afterwards.
completeSubagent(traces, toolID, outLen, isError, now) ==
    IF Matching(traces, toolID) = {} THEN traces
    ELSE LET i == SetMin(Matching(traces, toolID)) IN
         [traces EXCEPT ![i] =
            [traces[i] EXCEPT
                !.EndedAt = now,
                !.Duration = now - traces[i].StartedAt,
                !.Output = truncate(outLen, OutputLimit),
                !.Status = IF isError THEN "error" ELSE "complete"]]

\* processNormalizedEvent, lines 422-444, called by the stdout reader for
\* every parsed event: o.currentSubagents afterwards.
processNormalizedEvent(traces, line, now) ==
    IF ~ParseOk(line) THEN traces
    ELSE IF line.evType = "tool_start"
    THEN Append(traces, NewTrace(line, now))
    ELSE IF line.evType = "tool_end"
    THEN completeSubagent(traces, line.toolID, line.outLen,
                          line.isError, now)
    ELSE traces

\* The messages given to o.program.Send.  Content is the prefix followed by
\* the whole line (part "line") or by the event's Content (part "content").
OutputMsg(prefix, part, line, raw) ==
    [msg |-> "OutputMsg",
     Content |-> [prefix |-> prefix, part |-> part, of |-> line],
     Raw |-> raw]

SubagentMsg(trace) == [msg |-> "SubagentMsg", Trace |-> trace]

\* A stdout reader that keeps unparsed lines to itself.
StdoutMsgsParsedOnly(traces, line, now) ==
    IF ~ParseOk(line) THEN <<>>
    ELSE IF line.evType = "message"
    THEN << OutputMsg("", "content", line, FALSE) >>
    ELSE IF line.evType = "tool_start"
    THEN << SubagentMsg(NewTrace(line, now)) >>
    ELSE IF line.evType = "tool_end"
    THEN IF Matching(traces, line.toolID) = {} THEN <<>>
         ELSE << SubagentMsg(
                   completeSubagent(traces, line.toolID, line.outLen,
                                    line.isError, now)
                     [SetMin(Matching(traces, line.toolID))]) >>
    ELSE IF line.evType = "error"
    THEN << OutputMsg("[error] ", "content", line, TRUE) >>
    ELSE <<>>

\* What the stdout reader sends for one line (lines 366-381, 422-464).
StdoutMsgs(traces, line, now) ==
    IF ~ParseOk(line) THEN << OutputMsg("", "line", line, TRUE) >>
    ELSE IF line.evType = "message"
    THEN << OutputMsg("", "content", line, FALSE) >>
    ELSE IF line.evType = "tool_start"
    THEN << SubagentMsg(NewTrace(line, now)) >>
    ELSE IF line.evType = "tool_end"
    THEN IF Matching(traces, line.toolID) = {} THEN <<>>
         ELSE << SubagentMsg(
                   completeSubagent(traces, line.toolID, line.outLen,
                                    line.isError, now)
                     [SetMin(Matching(traces, line.toolID))]) >>
    ELSE IF line.evType = "error"
    THEN << OutputMsg("[error] ", "content", line, TRUE) >>
    ELSE <<>>

\* What the stderr reader writes to the log and sends for one line (lines
\* 398-400).
StderrLogged(line) == [prefix |-> "[stderr] ", part |-> "line", of |-> line]

StderrMsg(line) == OutputMsg("[stderr] ", "line", line, TRUE)

\* ------------------------------------------------------------------- Init
\* The locals of a runLoop goroutine and of the runIteration it is in;
\* started says that o.cmd.Start() succeeded in this iteration, settled is
\* the record of the statuses this loop's iterations were classified with.
NewLoop == [pc |-> "top", consecutiveFailures |-> 0, currentTask |-> 0,
            result |-> NoResult, started |-> FALSE,
            completionDetected |-> FALSE, blockedDetected |-> FALSE,
            stdoutDone |-> FALSE, stderrDone |-> FALSE, settled |-> <<>>]

InitOrchestrator ==
    /\ running = FALSE
    /\ stopCh = "open"
    /\ session = NoSession
    /\ cmd = "nil"
    /\ startPc = "idle"
    /\ lockPID = 0
    /\ starts = 0
    /\ loops = <<>>
    /\ child = NoChild
    /\ launched = 0
    /\ stdoutLog = <<>>
    /\ stderrLog = <<>>
    /\ sessionFileOk = TRUE
    /\ logDir = FALSE
    /\ handoff = <<>>
    /\ procAlive = TRUE
    /\ peerLockPID = 0
    /\ currentSubagents = <<>>
    /\ stopData = NoSession
    /\ errorMsgs = 0
    /\ sent = NoSent

\* One orchestrator alone on its host, in a directory without lock file.
Init ==
    /\ InitOrchestrator
    /\ config = [MaxIterations |-> MaxIter]
    /\ prd \in InitPRDs
    /\ peerPc = "idle"
    /\ lockFile = NoLock
    /\ sessionFile = NoSession

\* One orchestrator, configured for a single iteration.
InitOutput ==
    /\ InitOrchestrator
    /\ config = [MaxIterations |-> 1]
    /\ prd = NoPRD
    /\ peerPc = "idle"
    /\ lockFile = NoLock
    /\ sessionFile = NoSession

\* One orchestrator, configured for three iterations: the fewest with which
\* the loop can end in each of its ways.
InitFair ==
    /\ InitOrchestrator
    /\ config = [MaxIterations |-> 3]
    /\ prd \in InitPRDs
    /\ peerPc = "idle"
    /\ lockFile = NoLock
    /\ sessionFile = NoSession

\* One orchestrator, configured for two iterations.
InitDisk ==
    /\ InitOrchestrator
    /\ config = [MaxIterations |-> 2]
    /\ prd \in InitPRDs
    /\ peerPc = "idle"
    /\ lockFile = NoLock
    /\ sessionFile = NoSession

\* One orchestrator, configured for two iterations, in a directory with any
\* PRD.md or none.
InitTasks ==
    /\ InitOrchestrator
    /\ config = [MaxIterations |-> 2]
    /\ prd \in {NoPRD} \union Docs(MaxLines)
    /\ peerPc = "idle"
    /\ lockFile = NoLock
    /\ sessionFile = NoSession

\* Two ralph-loop processes on one host and one lock file; the orchestrator
\* under study is configured for a single iteration.
InitLock ==
    /\ InitOrchestrator
    /\ config = [MaxIterations |-> 1]
    /\ prd = NoPRD
    /\ peerPc = "idle"
    /\ lockFile = NoLock
    /\ sessionFile = NoSession

\* ------------------------------------------------------------------ Start
\* o.mu is held by a Stop call from its first line to its return; Start
\* holds it for lines 130-136 only, and nothing else takes it.
MutexFree == stopData = NoSession

\* Start, lines 130-136: the running check under the mutex.
StartBegin ==
    /\ procAlive
    /\ startPc = "idle"
    /\ MutexFree
    /\ IF running
       THEN UNCHANGED <<running, startPc, starts>>
       ELSE /\ running' = TRUE
            /\ starts' = starts + 1
            /\ startPc' = "readLock"
    /\ UNCHANGED <<currentSubagents, stopData, errorMsgs, sent,
                   config, stopCh, session, cmd, lockPID, loops, child,
                   launched, stdoutLog, stderrLog, lockFile, sessionFile,
                   sessionFileOk, logDir, handoff, prd, procAlive, peerPc,
                   peerLockPID>>

\* initSession, lines 177-183: os.Stat, os.ReadFile, json.Unmarshal.
InitReadLock ==
    /\ procAlive
    /\ startPc = "readLock"
    /\ IF lockFile.exists
       THEN lockPID' = lockFile.pid /\ startPc' = "check"
       ELSE lockPID' = 0 /\ startPc' = "create"
    /\ UNCHANGED <<currentSubagents, stopData, errorMsgs, sent,
                   config, running, stopCh, session, cmd, starts,
                   loops, child, launched, stdoutLog, stderrLog, lockFile,
                   sessionFile, sessionFileOk, logDir, handoff, prd,
                   procAlive, peerPc, peerLockPID>>

\* initSession, lines 186-194: the liveness check of the recorded owner.
InitCheck ==
    /\ procAlive
    /\ startPc = "check"
    /\ IF LockHeldByLive(lockPID)
       THEN startPc' = "idle" /\ lockPID' = 0
       ELSE startPc' = "remove" /\ UNCHANGED lockPID
    /\ UNCHANGED <<currentSubagents, stopData, errorMsgs, sent,
                   config, running, stopCh, session, cmd, starts,
                   loops, child, launched, stdoutLog, stderrLog, lockFile,
                   sessionFile, sessionFileOk, logDir, handoff, prd,
                   procAlive, peerPc, peerLockPID>>

\* initSession, line 196: os.Remove of the stale lock.
InitRemove ==
    /\ procAlive
    /\ startPc = "remove"
    /\ lockFile' = NoLock
    /\ startPc' = "create"
    /\ UNCHANGED <<currentSubagents, stopData, errorMsgs, sent,
                   config, running, stopCh, session, cmd, lockPID, starts, loops, child, launched, stdoutLog, stderrLog,
                   sessionFile, sessionFileOk, logDir, handoff, prd,
                   procAlive, peerPc, peerLockPID>>

\* initSession, lines 200-221: new session, lock file, log directory,
\* saveSession; Start returns saveSession's error.
InitCreate ==
    /\ procAlive
    /\ startPc = "create"
    /\ session' = NewSession(starts, SelfPID)
    /\ lockFile' = NewLock(SelfPID, starts)
    /\ logDir' = TRUE
    /\ sessionFile' = SaveSession(session')
    /\ IF sessionFileOk
       THEN startPc' = "spawn" /\ UNCHANGED lockPID
       ELSE startPc' = "idle" /\ lockPID' = 0
    /\ UNCHANGED <<currentSubagents, stopData, errorMsgs, sent,
                   config, running, stopCh, cmd, starts, loops,
                   child, launched, stdoutLog, stderrLog, sessionFileOk,
                   handoff, prd, procAlive, peerPc, peerLockPID>>

\* Start, lines 143-149: the notifications and `go o.runLoop()`.
StartSpawn ==
    /\ procAlive
    /\ startPc = "spawn"
    /\ loops' = Append(loops, NewLoop)
    /\ startPc' = "idle"
    /\ lockPID' = 0
    /\ UNCHANGED <<currentSubagents, stopData, errorMsgs, sent,
                   config, running, stopCh, session, cmd, starts,
                   child, launched, stdoutLog, stderrLog, lockFile,
                   sessionFile, sessionFileOk, logDir, handoff, prd,
                   procAlive, peerPc, peerLockPID>>

\* ------------------------------------------------------------------- Stop
\* What is left of the process after it died: its memory is gone.
Dead ==
    /\ procAlive' = FALSE
    /\ running' = FALSE
    /\ stopCh' = "open"
    /\ session' = NoSession
    /\ cmd' = "nil"
    /\ startPc' = "idle"
    /\ lockPID' = 0
    /\ loops' = <<>>
    /\ currentSubagents' = <<>>
    /\ stopData' = NoSession
    /\ errorMsgs' = 0
    /\ sent' = NoSent

\* Stop, lines 153-170, under the mutex, up to the json.MarshalIndent of
\* saveSession (line 227).  close(o.stopCh) on a channel that is already
\* closed panics, which ends the process.
Stop ==
    /\ procAlive
    /\ MutexFree
    /\ IF ~running
       THEN UNCHANGED <<running, stopCh, session, cmd, startPc, lockPID,
                        loops, child, procAlive, currentSubagents, stopData,
                        errorMsgs, sent>>
       ELSE IF stopCh = "closed"
       THEN Dead /\ UNCHANGED child
       ELSE /\ stopCh' = "closed"
            /\ running' = FALSE
            /\ child' = IF cmd = "started" /\ child.alive
                        THEN [alive |-> FALSE, open |-> FALSE,
                              killed |-> TRUE, stuck |-> FALSE]
                        ELSE child
            /\ session' = IF session = NoSession THEN session
                          ELSE [session EXCEPT !.Status = "interrupted"]
            /\ stopData' = session'
            /\ UNCHANGED <<cmd, startPc, lockPID, loops, procAlive,
                           currentSubagents, errorMsgs, sent>>
    /\ UNCHANGED <<config, starts, launched, stdoutLog, stderrLog, lockFile,
                   sessionFile, sessionFileOk, logDir, handoff, prd, peerPc,
                   peerLockPID>>

\* Stop, the os.WriteFile of its saveSession (line 231) and the deferred
\* o.mu.Unlock() (line 155).
StopSave ==
    /\ procAlive
    /\ ~MutexFree
    /\ sessionFile' = SaveSession(stopData)
    /\ stopData' = NoSession
    /\ UNCHANGED <<config, running, stopCh, session, cmd, startPc, lockPID,
                   starts, loops, child, launched, stdoutLog, stderrLog,
                   lockFile, sessionFileOk, logDir, handoff, prd, procAlive,
                   peerPc, peerLockPID, currentSubagents, errorMsgs, sent>>

\* The steps that are taken with o.mu held: lines 130-136 of Start and the
\* whole of Stop.
UnderMutex == StartBegin \/ Stop \/ StopSave

\* Abnormal termination of the orchestrator's process (SIGKILL, power loss).
Crash ==
    /\ procAlive
    /\ starts > 0
    /\ Dead
    /\ UNCHANGED <<config, starts, child, launched, stdoutLog, stderrLog,
                   lockFile, sessionFile, sessionFileOk, logDir, handoff,
                   prd, peerPc, peerLockPID>>


\* ---------------------------------------------------------------- runLoop
LoopIds == DOMAIN loops

SetLoop(l, r) == loops' = [loops EXCEPT ![l] = r]

At(l, pc) == procAlive /\ l \in LoopIds /\ loops[l].pc = pc

\* The state of a loop's locals that are out of scope between iterations.
Settled(r, pc) ==
    [r EXCEPT !.pc = pc, !.result = NoResult, !.currentTask = 0,
              !.started = FALSE, !.completionDetected = FALSE, !.blockedDetected = FALSE,
              !.stdoutDone = FALSE, !.stderrDone = FALSE]

\* A loop condition that lets the counter reach the maximum and go on.
LoopConditionInclusive(iteration, max) == iteration <= max

\* runLoop, line 243: the condition of the for statement.
LoopCondition(iteration, max) == iteration < max

\* A runLoop that does not look at stopCh.
LoopTopIgnoresStop(l) ==
    /\ At(l, "top")
    /\ IF LoopCondition(session.Iteration, config.MaxIterations)
       THEN /\ SetLoop(l, [loops[l] EXCEPT !.pc = "increment"])
            /\ UNCHANGED <<session, sessionFile>>
       ELSE /\ session' = [session EXCEPT !.Status = "completed"]
            /\ sessionFile' = SaveSession(session')
            /\ SetLoop(l, [loops[l] EXCEPT !.pc = "defer"])
    /\ UNCHANGED <<currentSubagents, stopData, errorMsgs, sent,
                   config, running, stopCh, cmd, startPc, lockPID, starts,
                   child, launched, stdoutLog, stderrLog, lockFile,
                   sessionFileOk, logDir, handoff, prd, procAlive, peerPc,
                   peerLockPID>>

\* runLoop, lines 243-248 and 301-302: the loop condition and the
\* non-blocking receive from stopCh; when the condition is false the
\* session is marked completed and saved.
LoopTop(l) ==
    /\ At(l, "top")
    /\ IF LoopCondition(session.Iteration, config.MaxIterations)
       THEN /\ SetLoop(l, [loops[l] EXCEPT !.pc =
                    IF stopCh = "closed" THEN "defer" ELSE "increment"])
            /\ UNCHANGED <<session, sessionFile>>
       ELSE /\ session' = [session EXCEPT !.Status = "completed"]
            /\ sessionFile' = SaveSession(session')
            /\ SetLoop(l, [loops[l] EXCEPT !.pc = "defer"])
    /\ UNCHANGED <<currentSubagents, stopData, errorMsgs, sent,
                   config, running, stopCh, cmd, startPc, lockPID, starts, child, launched, stdoutLog, stderrLog, lockFile,
                   sessionFileOk, logDir, handoff, prd, procAlive, peerPc,
                   peerLockPID>>

\* runLoop, lines 250-271: o.session.Iteration++ and saveSession, then
\* checkTasks and either the completed exit or the current-task update,
\* each with its save.
LoopIncrement(l) ==
    /\ At(l, "increment")
    /\ LET t == checkTasks(prd) IN
       IF ~t.shouldContinue
       THEN /\ session' = [session EXCEPT !.Iteration = @ + 1,
                                          !.Status = "completed"]
            /\ SetLoop(l, [loops[l] EXCEPT !.pc = "defer"])
       ELSE /\ session' = [session EXCEPT !.Iteration = @ + 1,
                                          !.CurrentTask = t.currentTask]
            /\ SetLoop(l, [loops[l] EXCEPT !.pc = "begin",
                                           !.currentTask = t.currentTask])
    /\ sessionFile' = SaveSession(session')
    /\ UNCHANGED <<currentSubagents, stopData, errorMsgs, sent,
                   config, running, stopCh, cmd, startPc, lockPID, starts,
                   child, launched, stdoutLog, stderrLog, lockFile,
                   sessionFileOk, logDir, handoff, prd, procAlive, peerPc,
                   peerLockPID>>

\* A runIteration that keeps the traces of the iteration before.
BeginIterationKeepsTraces(l, created) ==
    /\ At(l, "begin")
    /\ LET r == [Iteration |-> session.Iteration, Status |-> "",
                 Task |-> session.CurrentTask,
                 LogFile |-> session.Iteration,
                 Subagents |-> <<>>] IN
       IF created
       THEN /\ SetLoop(l, [loops[l] EXCEPT !.pc = "start", !.result = r])
            /\ cmd' = "built"
       ELSE /\ SetLoop(l, [loops[l] EXCEPT !.pc = "switch",
                               !.result = [r EXCEPT !.Status = "failed"]])
            /\ UNCHANGED cmd
    /\ stdoutLog' = <<>>
    /\ stderrLog' = <<>>
    /\ sent' = NoSent
    /\ UNCHANGED <<currentSubagents, stopData, errorMsgs,
                   config, running, stopCh, session, startPc, lockPID,
                   starts, child, launched, lockFile, sessionFile,
                   sessionFileOk, logDir, handoff, prd, procAlive, peerPc,
                   peerLockPID>>

\* runIteration, lines 307-336: the result record, the reset of the
\* iteration state, the prompt, os.Create of the log file (which fails when
\* created is FALSE), then o.cmd = BuildCommand(...) and the pipes.
\* result.LogFile is iteration-N.log, represented by N.
BeginIteration(l, created) ==
    /\ At(l, "begin")
    /\ LET r == [Iteration |-> session.Iteration, Status |-> "",
                 Task |-> session.CurrentTask,
                 LogFile |-> session.Iteration,
                 Subagents |-> <<>>] IN
       IF created
       THEN /\ SetLoop(l, [loops[l] EXCEPT !.pc = "start", !.result = r])
            /\ cmd' = "built"
       ELSE /\ SetLoop(l, [loops[l] EXCEPT !.pc = "switch",
                               !.result = [r EXCEPT !.Status = "failed"]])
            /\ UNCHANGED cmd
    /\ currentSubagents' = <<>>
    /\ stdoutLog' = <<>>
    /\ stderrLog' = <<>>
    /\ sent' = NoSent
    /\ UNCHANGED <<stopData, errorMsgs,
                   config, running, stopCh, session, startPc, lockPID,
                   starts, child, launched, lockFile, sessionFile,
                   sessionFileOk, logDir, handoff, prd, procAlive, peerPc,
                   peerLockPID>>

\* A runIteration that starts its readers and waits for them even when
\* o.cmd.Start() failed.
StartCommandWaits(l, started) ==
    /\ At(l, "start")
    /\ launched < MaxIter
    /\ IF started
       THEN /\ cmd' = "started"
            /\ child' = [alive |-> TRUE, open |-> TRUE, killed |-> FALSE,
                       stuck |-> FALSE]
            /\ launched' = launched + 1
            /\ SetLoop(l, [loops[l] EXCEPT !.pc = "stream",
                                           !.started = TRUE])
       ELSE /\ SetLoop(l, [loops[l] EXCEPT !.pc = "stream"])
            /\ UNCHANGED <<cmd, child, launched>>
    /\ UNCHANGED <<currentSubagents, stopData, errorMsgs, sent,
                   config, running, stopCh, session, startPc, lockPID,
                   starts, stdoutLog, stderrLog, lockFile,
                   sessionFile, sessionFileOk, logDir, handoff, prd,
                   procAlive, peerPc, peerLockPID>>

\* runIteration, lines 338-352: o.cmd.Start(), which fails when started is
\* FALSE; then the prompt on stdin and the two reader goroutines.
StartCommand(l, started) ==
    /\ At(l, "start")
    /\ launched < MaxIter
    /\ IF started
       THEN /\ cmd' = "started"
            /\ child' = [alive |-> TRUE, open |-> TRUE, killed |-> FALSE,
                       stuck |-> FALSE]
            /\ launched' = launched + 1
            /\ SetLoop(l, [loops[l] EXCEPT !.pc = "stream",
                                           !.started = TRUE])
       ELSE /\ SetLoop(l, [loops[l] EXCEPT !.pc = "switch",
                                           !.result.Status = "failed"])
            /\ UNCHANGED <<cmd, child, launched>>
    /\ UNCHANGED <<currentSubagents, stopData, errorMsgs, sent,
                   config, running, stopCh, session, startPc, lockPID,
                   starts, stdoutLog, stderrLog, lockFile,
                   sessionFile, sessionFileOk, logDir, handoff, prd,
                   procAlive, peerPc, peerLockPID>>

\* The stdout reader, lines 361-389: one line read, logged and scanned.
ReadStdout(l, line) ==
    /\ At(l, "stream")
    /\ ~loops[l].stdoutDone
    /\ child.open
    /\ ~child.stuck
    /\ TokenFits(line.size, StdoutMaxToken)
    /\ stdoutLog' = Append(stdoutLog, line)
    /\ LET now == Len(stdoutLog) + 1 IN
       /\ currentSubagents' =
              processNormalizedEvent(currentSubagents, line, now)
       /\ sent' = [sent EXCEPT !.stdout =
              @ \o StdoutMsgs(currentSubagents, line, now)]
    /\ SetLoop(l, [loops[l] EXCEPT
            !.completionDetected = @ \/ DetectsComplete(line),
            !.blockedDetected = @ \/ DetectsBlocked(line)])
    /\ UNCHANGED <<stopData, errorMsgs,
                   config, running, stopCh, session, cmd, startPc, lockPID,
                   starts, child, launched, stderrLog, lockFile,
                   sessionFile, sessionFileOk, logDir, handoff, prd,
                   procAlive, peerPc, peerLockPID>>

\* The stdout reader, line 361, with a line the scanner's buffer cannot
\* hold: scanner.Scan() returns false, the loop ends and the goroutine
\* calls wg.Done(); nobody reads the pipe from then on.
StdoutTooLong(l, line) ==
    /\ At(l, "stream")
    /\ ~loops[l].stdoutDone
    /\ child.open
    /\ ~child.stuck
    /\ ~TokenFits(line.size, StdoutMaxToken)
    /\ SetLoop(l, [loops[l] EXCEPT !.stdoutDone = TRUE])
    /\ child' = [child EXCEPT
            !.stuck = LeavesChildStuck(line.size, StdoutMaxToken)]
    /\ UNCHANGED <<currentSubagents, stopData, errorMsgs, sent,
                   config, running, stopCh, session, cmd, startPc, lockPID,
                   starts, launched, stdoutLog, stderrLog,
                   lockFile, sessionFile, sessionFileOk, logDir, handoff,
                   prd, procAlive, peerPc, peerLockPID>>

\* The stdout reader, lines 356 and 361: scanner.Scan() returns false at
\* end-of-stream and the goroutine calls wg.Done().
StdoutEOF(l) ==
    /\ At(l, "stream")
    /\ ~loops[l].stdoutDone
    /\ ~child.open
    /\ SetLoop(l, [loops[l] EXCEPT !.stdoutDone = TRUE])
    /\ UNCHANGED <<currentSubagents, stopData, errorMsgs, sent,
                   config, running, stopCh, session, cmd, startPc, lockPID,
                   starts, child, launched, stdoutLog, stderrLog,
                   lockFile, sessionFile, sessionFileOk, logDir, handoff,
                   prd, procAlive, peerPc, peerLockPID>>

\* The stderr reader, lines 396-401: one line read, logged and forwarded.
ReadStderr(l, line) ==
    /\ At(l, "stream")
    /\ ~loops[l].stderrDone
    /\ child.open
    /\ ~child.stuck
    /\ Len(stderrLog) < MaxErr
    /\ TokenFits(line.size, StderrMaxToken)
    /\ stderrLog' = Append(stderrLog, StderrLogged(line))
    /\ sent' = [sent EXCEPT !.stderr = Append(@, StderrMsg(line))]
    /\ UNCHANGED <<currentSubagents, stopData, errorMsgs,
                   config, running, stopCh, session, cmd, startPc, lockPID,
                   starts, loops, child, launched, stdoutLog,
                   lockFile, sessionFile, sessionFileOk, logDir, handoff,
                   prd, procAlive, peerPc, peerLockPID>>

\* The stderr reader, line 397, with a line longer than the default
\* buffer of its scanner: the loop ends and the goroutine calls wg.Done().
StderrTooLong(l, line) ==
    /\ At(l, "stream")
    /\ ~loops[l].stderrDone
    /\ child.open
    /\ ~child.stuck
    /\ Len(stderrLog) < MaxErr
    /\ ~TokenFits(line.size, StderrMaxToken)
    /\ SetLoop(l, [loops[l] EXCEPT !.stderrDone = TRUE])
    /\ child' = [child EXCEPT
            !.stuck = LeavesChildStuck(line.size, StderrMaxToken)]
    /\ UNCHANGED <<currentSubagents, stopData, errorMsgs, sent,
                   config, running, stopCh, session, cmd, startPc, lockPID,
                   starts, launched, stdoutLog, stderrLog,
                   lockFile, sessionFile, sessionFileOk, logDir, handoff,
                   prd, procAlive, peerPc, peerLockPID>>

\* The stderr reader, lines 395 and 397: end-of-stream and wg.Done().
StderrEOF(l) ==
    /\ At(l, "stream")
    /\ ~loops[l].stderrDone
    /\ ~child.open
    /\ SetLoop(l, [loops[l] EXCEPT !.stderrDone = TRUE])
    /\ UNCHANGED <<currentSubagents, stopData, errorMsgs, sent,
                   config, running, stopCh, session, cmd, startPc, lockPID,
                   starts, child, launched, stdoutLog, stderrLog,
                   lockFile, sessionFile, sessionFileOk, logDir, handoff,
                   prd, procAlive, peerPc, peerLockPID>>

\* The join barrier wg.Wait() (line 404) returns when both readers are done.
WaitReaders(stdoutDone, stderrDone) == stdoutDone /\ stderrDone

\* runIteration, line 404.
WgWait(l) ==
    /\ At(l, "stream")
    /\ WaitReaders(loops[l].stdoutDone, loops[l].stderrDone)
    /\ SetLoop(l, [loops[l] EXCEPT !.pc = "cmdWait"])
    /\ UNCHANGED <<currentSubagents, stopData, errorMsgs, sent,
                   config, running, stopCh, session, cmd, startPc, lockPID,
                   starts, child, launched, stdoutLog, stderrLog,
                   lockFile, sessionFile, sessionFileOk, logDir, handoff,
                   prd, procAlive, peerPc, peerLockPID>>

\* A runIteration that does not wait for the child's exit.
WaitChildSkipped(c) == TRUE

\* o.cmd.Wait() (line 405) returns when the child has exited.
WaitChild(c) == ~c.alive

\* runIteration, lines 405-418: o.cmd.Wait(), which reaps the child, and
\* the status from the two flags.
CmdWait(l) ==
    /\ At(l, "cmdWait")
    /\ WaitChild(child)
    /\ child' = IF child.alive THEN child ELSE NoChild
    /\ SetLoop(l, [loops[l] EXCEPT
            !.pc = "switch",
            !.result.Subagents = currentSubagents,
            !.result.Status = Classify(loops[l].completionDetected,
                                       loops[l].blockedDetected)])
    /\ UNCHANGED <<currentSubagents, stopData, errorMsgs, sent,
                   config, running, stopCh, session, cmd, startPc, lockPID,
                   starts, launched, stdoutLog, stderrLog, lockFile,
                   sessionFile, sessionFileOk, logDir, handoff, prd,
                   procAlive, peerPc, peerLockPID>>

\* runLoop, lines 276-298: the switch on result.Status, then the restart
\* delay before the next pass.
SwitchResult(l) ==
    /\ At(l, "switch")
    /\ LET status == loops[l].result.Status
           failures == NextFailures(loops[l].consecutiveFailures, status)
           giveUp == status = "failed" /\ TooManyFailures(failures)
       IN
       /\ session' = [session EXCEPT
              !.TasksCompleted = IF status = "complete" THEN @ + 1 ELSE @,
              !.Status = IF giveUp THEN "failed" ELSE @]
       /\ sessionFile' = IF giveUp THEN SaveSession(session') ELSE sessionFile
       /\ errorMsgs' = IF giveUp THEN errorMsgs + 1 ELSE errorMsgs
       /\ handoff' = IF status = "blocked"
                     THEN Append(handoff, HandoffEntry(loops[l].currentTask,
                                                       loops[l].result.LogFile))
                     ELSE handoff
       /\ SetLoop(l, [Settled(loops[l], IF giveUp THEN "defer" ELSE "top")
                        EXCEPT !.consecutiveFailures = failures,
                               !.settled = Append(@, status)])
    /\ stdoutLog' = <<>>
    /\ stderrLog' = <<>>
    /\ sent' = NoSent
    /\ UNCHANGED <<currentSubagents, stopData,
                   config, running, stopCh, cmd, startPc, lockPID, starts,
                   child, launched, lockFile, sessionFileOk, logDir, prd,
                   procAlive, peerPc, peerLockPID>>

\* A runLoop whose deferred function forgets the lock file.
LoopDeferKeepsLock(l) ==
    /\ At(l, "defer")
    /\ SetLoop(l, Settled(loops[l], "done"))
    /\ UNCHANGED <<currentSubagents, stopData, errorMsgs, sent,
                   config, running, stopCh, session, cmd, startPc, lockPID,
                   starts, child, launched, stdoutLog, stderrLog, lockFile,
                   sessionFile, sessionFileOk, logDir, handoff, prd,
                   procAlive, peerPc, peerLockPID>>

\* runLoop, lines 236-239: the deferred os.Remove of the lock file and the
\* stopped notification.
LoopDefer(l) ==
    /\ At(l, "defer")
    /\ lockFile' = NoLock
    /\ SetLoop(l, Settled(loops[l], "done"))
    /\ UNCHANGED <<currentSubagents, stopData, errorMsgs, sent,
                   config, running, stopCh, session, cmd, startPc, lockPID,
                   starts, child, launched, stdoutLog, stderrLog,
                   sessionFile, sessionFileOk, logDir, handoff, prd,
                   procAlive, peerPc, peerLockPID>>

\* ------------------------------------------------------------ environment
\* The child closes its stdout and stderr and keeps running.
ChildClosesStreams ==
    /\ child.alive
    /\ child.open
    /\ ~child.stuck
    /\ child' = [child EXCEPT !.open = FALSE]
    /\ UNCHANGED <<currentSubagents, stopData, errorMsgs, sent,
                   config, running, stopCh, session, cmd, startPc, lockPID,
                   starts, loops, launched, stdoutLog, stderrLog,
                   lockFile, sessionFile, sessionFileOk, logDir, handoff,
                   prd, procAlive, peerPc, peerLockPID>>

\* The child exits by itself.
ChildExit ==
    /\ child.alive
    /\ ~child.stuck
    /\ child' = [child EXCEPT !.alive = FALSE, !.open = FALSE]
    /\ UNCHANGED <<currentSubagents, stopData, errorMsgs, sent,
                   config, running, stopCh, session, cmd, startPc, lockPID,
                   starts, loops, launched, stdoutLog, stderrLog,
                   lockFile, sessionFile, sessionFileOk, logDir, handoff,
                   prd, procAlive, peerPc, peerLockPID>>

\* The agent edits PRD.md: it creates the document with a human-only and an
\* agent-executable task, or ticks off the first agent-executable task.
ChildEditsPRD ==
    /\ child.alive
    /\ ~child.stuck
    /\ IF ~prd.exists
       THEN prd' = AgentPRD
       ELSE /\ AiTasks(prd) # {}
            /\ prd' = [prd EXCEPT !.lines[SetMin(AiTasks(prd))] = "done"]
    /\ UNCHANGED <<currentSubagents, stopData, errorMsgs, sent,
                   config, running, stopCh, session, cmd, startPc, lockPID,
                   starts, loops, child, launched, stdoutLog,
                   stderrLog, lockFile, sessionFile, sessionFileOk, logDir,
                   handoff, procAlive, peerPc, peerLockPID>>

\* The session file stops being writable.
SessionFileBreaks ==
    /\ sessionFileOk
    /\ sessionFileOk' = FALSE
    /\ UNCHANGED <<currentSubagents, stopData, errorMsgs, sent,
                   config, running, stopCh, session, cmd, startPc, lockPID,
                   starts, loops, child, launched, stdoutLog,
                   stderrLog, lockFile, sessionFile, logDir, handoff, prd,
                   procAlive, peerPc, peerLockPID>>

\* ------------------------------------------------------------------- Next
\* The steps of runLoop and runIteration other than the readers' reads.
LoopStep(l) ==
    \/ LoopTop(l)
    \/ LoopIncrement(l)
    \/ \E created \in BOOLEAN : BeginIteration(l, created)
    \/ \E started \in BOOLEAN : StartCommand(l, started)
    \/ StdoutEOF(l)
    \/ StderrEOF(l)
    \/ WgWait(l)
    \/ CmdWait(l)
    \/ SwitchResult(l)
    \/ LoopDefer(l)

StartStep ==
    \/ StartBegin
    \/ InitReadLock
    \/ InitCheck
    \/ InitRemove
    \/ InitCreate
    \/ StartSpawn

\* The whole session: up to MaxIter iterations, with children that print
\* at most the line that tells their outcome and then exit.
Next ==
    \/ StartStep
    \/ Stop
    \/ StopSave
    \/ Crash
    \/ \E l \in LoopIds : LoopStep(l)
    \/ \E l \in LoopIds, line \in BasicOut :
           stdoutLog = <<>> /\ ReadStdout(l, line)
    \/ ChildExit
    \/ ChildEditsPRD

Spec == Init /\ [][Next]_vars

\* The goroutines of the Go runtime are scheduled fairly and, as the loop
\* assumes, every child exits; nothing obliges the callers of Start and
\* Stop, the agent's edits or a crash.
Fairness ==
    /\ \A l \in 1..2 : WF_vars(l \in LoopIds /\ LoopStep(l))
    /\ WF_vars(ChildExit)

SpecFair == InitFair /\ [][Next]_vars /\ Fairness

\* A session that nobody stops, over any task list; its one Start call finds
\* no lock file.
NextTasks ==
    \/ StartBegin
    \/ InitReadLock
    \/ InitCreate
    \/ StartSpawn
    \/ \E l \in LoopIds : LoopStep(l)
    \/ \E l \in LoopIds, line \in BasicOut :
           stdoutLog = <<>> /\ ReadStdout(l, line)
    \/ ChildExit
    \/ ChildEditsPRD

SpecTasks == InitTasks /\ [][NextTasks]_vars

\* A session of up to MaxIter iterations that nobody stops and that runs
\* to its end.
SpecStreak == Init /\ [][NextTasks]_vars

\* The session on a disk where the session file can stop being writable.
NextDisk ==
    \/ Next
    \/ SessionFileBreaks

SpecDisk == InitDisk /\ [][NextDisk]_vars

\* One iteration in full: children that print any lines.
NextOutput ==
    \/ StartStep
    \/ Stop
    \/ StopSave
    \/ \E l \in LoopIds : LoopStep(l)
    \/ \E l \in LoopIds, line \in StdoutLines :
           Len(stdoutLog) < MaxOut /\ ReadStdout(l, line)
    \/ \E l \in LoopIds, line \in StderrLines : ReadStderr(l, line)
    \/ ChildClosesStreams
    \/ ChildExit

SpecOutput == InitOutput /\ [][NextOutput]_vars

\* A Start call that finds no lock file, in a session nobody stops.
StartAlone ==
    \/ StartBegin
    \/ InitReadLock
    \/ InitCreate
    \/ StartSpawn

\* One iteration with a child that prints long lines on either stream.
NextStreams ==
    \/ StartAlone
    \/ \E l \in LoopIds : LoopStep(l)
    \/ \E l \in LoopIds, line \in LongLines :
           Len(stdoutLog) < MaxOut /\ ReadStdout(l, line)
    \/ \E l \in LoopIds, line \in LongLines :
           Len(stdoutLog) < MaxOut /\ StdoutTooLong(l, line)
    \/ \E l \in LoopIds, line \in LongLines : ReadStderr(l, line)
    \/ \E l \in LoopIds, line \in LongLines : StderrTooLong(l, line)
    \/ ChildClosesStreams
    \/ ChildExit

SpecStreams == InitOutput /\ [][NextStreams]_vars

\* Two iterations with a backend of variant A whose children print any
\* events.
NextTrace ==
    \/ StartAlone
    \/ \E l \in LoopIds : LoopStep(l)
    \/ \E l \in LoopIds, w \in ClaudeEvents :
           Len(stdoutLog) < MaxEvents /\ ReadStdout(l, ClaudeParseEvent(w))
    \/ ChildExit

SpecTrace == InitDisk /\ [][NextTrace]_vars

\* Two iterations, with any Start and Stop calls, whose children may close
\* their streams before they exit.
NextChildren ==
    \/ Next
    \/ ChildClosesStreams

SpecChildren == InitDisk /\ [][NextChildren]_vars

\* One iteration whose child prints one line of any characters.
NextTokens ==
    \/ StartAlone
    \/ \E l \in LoopIds : LoopStep(l)
    \/ \E l \in LoopIds, text \in Texts(MaxText) :
           stdoutLog = <<>> /\ ReadStdout(l, TextLine(text))
    \/ ChildExit

SpecTokens == InitOutput /\ [][NextTokens]_vars

\* One iteration whose child starts tools with any input.
NextInput ==
    \/ StartAlone
    \/ \E l \in LoopIds : LoopStep(l)
    \/ \E l \in LoopIds, input \in ToolInputs :
           Len(stdoutLog) < MaxOut /\ ReadStdout(l, ToolStartWith(input))
    \/ ChildExit

SpecInput == InitOutput /\ [][NextInput]_vars

\* One iteration with a backend of variant B whose child prints any
\* events.
NextCodex ==
    \/ StartAlone
    \/ \E l \in LoopIds : LoopStep(l)
    \/ \E l \in LoopIds, w \in CodexEvents :
           Len(stdoutLog) < MaxEvents /\ ReadStdout(l, CodexParseEvent(w))
    \/ ChildExit

SpecCodex == InitOutput /\ [][NextCodex]_vars

\* ------------------------------------------------- the other ralph-loop
\* The other process runs the same Start and initSession on its own
\* Orchestrator object; of its loop only the end is modelled.
PeerFrame == UNCHANGED <<currentSubagents, stopData, errorMsgs, sent, config,
                         running, stopCh, session, cmd, startPc,
                         lockPID, starts, loops, child, launched, stdoutLog,
                         stderrLog, sessionFileOk, handoff, prd, procAlive>>

\* initSession, lines 177-183, in the other process.
PeerReadLock ==
    /\ peerPc = "idle"
    /\ IF lockFile.exists
       THEN peerLockPID' = lockFile.pid /\ peerPc' = "check"
       ELSE peerLockPID' = 0 /\ peerPc' = "create"
    /\ UNCHANGED <<lockFile, sessionFile, logDir>>
    /\ PeerFrame

\* initSession, lines 186-194, in the other process.
PeerCheck ==
    /\ peerPc = "check"
    /\ peerPc' = IF LockHeldByLive(peerLockPID) THEN "ended" ELSE "remove"
    /\ peerLockPID' = 0
    /\ UNCHANGED <<lockFile, sessionFile, logDir>>
    /\ PeerFrame

\* initSession, line 196, in the other process.
PeerRemove ==
    /\ peerPc = "remove"
    /\ lockFile' = NoLock
    /\ peerPc' = "create"
    /\ UNCHANGED <<peerLockPID, sessionFile, logDir>>
    /\ PeerFrame

\* initSession, lines 200-221, in the other process.
PeerCreate ==
    /\ peerPc = "create"
    /\ lockFile' = NewLock(PeerPID, PeerSessionID)
    /\ logDir' = TRUE
    /\ sessionFile' = SaveSession(NewSession(PeerSessionID, PeerPID))
    /\ peerPc' = IF sessionFileOk THEN "running" ELSE "ended"
    /\ UNCHANGED peerLockPID
    /\ PeerFrame

\* runLoop, lines 236-239, in the other process: its loop ends.
PeerEnds ==
    /\ peerPc = "running"
    /\ lockFile' = NoLock
    /\ peerPc' = "ended"
    /\ UNCHANGED <<peerLockPID, sessionFile, logDir>>
    /\ PeerFrame

\* The other process terminates abnormally.
PeerDies ==
    /\ peerPc = "running"
    /\ peerPc' = "dead"
    /\ UNCHANGED <<peerLockPID, lockFile, sessionFile, logDir>>
    /\ PeerFrame

\* Two processes and one lock file.
NextLock ==
    \/ StartStep
    \/ Stop
    \/ StopSave
    \/ \E l \in LoopIds : LoopStep(l)
    \/ \E l \in LoopIds, line \in BasicOut :
           stdoutLog = <<>> /\ ReadStdout(l, line)
    \/ ChildExit
    \/ PeerReadLock
    \/ PeerCheck
    \/ PeerRemove
    \/ PeerCreate
    \/ PeerEnds
    \/ PeerDies

SpecLock == InitLock /\ [][NextLock]_vars

\* ================================================================ claims
\* The loops that are inside runIteration with a classified result.
Classified(l) == loops[l].pc = "switch" /\ loops[l].result.Status # ""

\* C1: an iteration that launched a child is classified only after the
\* stdout reader and the stderr reader have both reached end-of-stream and
\* the child's exit has been observed by o.cmd.Wait().
C1_ClassifyAfterJoin ==
    \A l \in LoopIds :
        (loops[l].started /\ loops[l].result.Status # "")
        => /\ loops[l].stdoutDone
           /\ loops[l].stderrDone
           /\ ~child.alive

\* C1 witness: a child printed all its lines on both streams, both readers
\* finished, and the iteration was classified.
C1_Witness ==
    \E l \in LoopIds :
        /\ Classified(l)
        /\ loops[l].started
        /\ loops[l].stdoutDone /\ loops[l].stderrDone
        /\ Len(stdoutLog) = MaxOut
        /\ Len(stderrLog) = MaxErr

\* The markers in the text the protocol looks at: unparsed raw lines and
\* the text of message events, anywhere in the iteration's stdout.
SawComplete ==
    \E i \in DOMAIN stdoutLog :
        stdoutLog[i].complete /\ stdoutLog[i].evType \in {"raw", "message"}

SawBlocked ==
    \E i \in DOMAIN stdoutLog :
        stdoutLog[i].blocked /\ stdoutLog[i].evType \in {"raw", "message"}

\* C2: a classified iteration is complete if the COMPLETE marker was in any
\* raw line or message text of its output, whatever the position of the line
\* and whether or not BLOCKED appeared too; otherwise blocked if the BLOCKED
\* marker was; otherwise failed.
C2_MarkerPrecedence ==
    \A l \in LoopIds :
        Classified(l) =>
            loops[l].result.Status =
                IF SawComplete THEN "complete"
                ELSE IF SawBlocked THEN "blocked"
                ELSE "failed"

\* C2 witness: BLOCKED on the first line, COMPLETE on the second and last
\* one, classified complete.
C2_Witness ==
    \E l \in LoopIds :
        /\ Classified(l)
        /\ Len(stdoutLog) = 2
        /\ stdoutLog[1].blocked /\ ~stdoutLog[1].complete
        /\ stdoutLog[2].complete /\ ~stdoutLog[2].blocked
        /\ loops[l].result.Status = "complete"

\* The last n iterations the loop settled were all classified failed.
LastFailed(history, n) ==
    /\ Len(history) >= n
    /\ \A i \in (Len(history) - n + 1)..Len(history) : history[i] = "failed"

\* Loop l takes its step out of the switch on result.Status.
LeavesSwitch(l) ==
    /\ loops[l].pc = "switch"
    /\ l \in DOMAIN loops'
    /\ loops'[l].pc # "switch"

\* C3: when the third failed iteration in a row is settled, runLoop sets the
\* session status to failed and saves it, the loop is on its way out, and
\* from then on the iteration counter is not incremented and no child is
\* launched.
C3_ThreeFailuresStop ==
    /\ [](\A l \in LoopIds :
            LastFailed(loops[l].settled, FailureLimit)
                => loops[l].pc \in {"defer", "done"})
    /\ [][\A l \in LoopIds :
            (/\ LeavesSwitch(l)
             /\ loops[l].result.Status = "failed"
             /\ LastFailed(loops[l].settled, FailureLimit - 1))
            => /\ session'.Status = "failed"
               /\ sessionFileOk => sessionFile' = session'
               /\ loops'[l].pc = "defer"]_vars
    /\ [][(\E l \in LoopIds : LastFailed(loops[l].settled, FailureLimit))
            => /\ launched' = launched
               /\ session'.Iteration <= session.Iteration]_vars

\* C3 witness: three failures in a row, the loop has ended, the session and
\* the session file say failed.
C3_Witness ==
    \E l \in LoopIds :
        /\ loops[l].settled = <<"failed", "failed", "failed">>
        /\ loops[l].pc = "done"
        /\ session.Status = "failed"
        /\ sessionFile.Status = "failed"
        /\ launched = FailureLimit

\* C4: the session status is failed only if the three most recently settled
\* iterations of a loop were all classified failed, and after a complete or
\* blocked iteration the failure streak is zero.
C4_OnlyThreeInARow ==
    /\ session.Status = "failed"
        => \E l \in LoopIds : LastFailed(loops[l].settled, FailureLimit)
    /\ \A l \in LoopIds :
        (/\ loops[l].settled # <<>>
         /\ loops[l].settled[Len(loops[l].settled)] # "failed")
        => loops[l].consecutiveFailures = 0

\* C4 witness: failed, failed, complete, failed leaves the session running
\* with a streak of one.
C4_Witness ==
    \E l \in LoopIds :
        /\ loops[l].settled = <<"failed", "failed", "complete", "failed">>
        /\ loops[l].consecutiveFailures = 1
        /\ session.Status = "running"

\* Start's liveness check of the recorded owner has just been decided.
LeavesCheck == startPc = "check" /\ startPc' # "check" /\ procAlive'

\* C5: when Start finds a lock file whose recorded process is alive, it
\* returns an error without spawning a loop, and the lock file, the session
\* file and the log directory stay as they are.
C5_LiveLockRefused ==
    [][(LeavesCheck /\ lockPID > 0 /\ Alive(lockPID))
        => /\ startPc' = "idle"
           /\ UNCHANGED <<lockFile, sessionFile, logDir, loops>>]_vars

\* C6: when Start finds a lock file whose recorded process is not alive, it
\* goes on to discard the record, and the session it then creates has a new
\* id, status running and iteration 0, with a lock record that names this
\* process and that session.
C6_StaleLockReclaimed ==
    /\ [][(LeavesCheck /\ lockPID > 0 /\ ~Alive(lockPID))
            => startPc' = "remove"]_vars
    /\ [][(startPc = "remove" /\ startPc' # "remove" /\ procAlive')
            => startPc' = "create" /\ ~lockFile'.exists]_vars
    /\ [][(startPc = "create" /\ startPc' # "create" /\ procAlive')
            => /\ session'.ID # session.ID
               /\ session'.Status = "running"
               /\ session'.Iteration = 0
               /\ session'.PID = SelfPID
               /\ lockFile' = [exists |-> TRUE, pid |-> SelfPID,
                               sid |-> session'.ID]
               /\ sessionFileOk => startPc' = "spawn"]_vars

\* C6 witness: the lock of the dead process was found and discarded, the new
\* lock and session are in place and the loop is about to be spawned.
C6_Witness ==
    /\ startPc = "spawn"
    /\ lockPID = PeerPID
    /\ peerPc = "dead"
    /\ lockFile = [exists |-> TRUE, pid |-> SelfPID, sid |-> session.ID]
    /\ session.Status = "running"
    /\ session.Iteration = 0

\* This process is past initSession with a loop that has not ended.
SelfLooping == procAlive /\ \E l \in LoopIds : loops[l].pc # "done"

\* C7: of two processes started against the same lock file, at most one is
\* past initSession and iterating while the other is alive.
C7_MutualExclusion == ~(SelfLooping /\ peerPc = "running")

\* A loop is on its way out, or a stop was requested of a loop in progress.
LoopEnding == \E l \in LoopIds : loops[l].pc = "defer"

StopRequested ==
    stopCh = "closed" /\ \E l \in LoopIds : loops[l].pc # "done"

\* C8: whenever the loop ends (iteration limit, no task left, three failures
\* in a row) or a stop is requested, the lock file is eventually removed,
\* unless the process dies first; and when the process dies, the lock file
\* stays as it is.
C8_LockReleased ==
    /\ (LoopEnding \/ StopRequested) ~> (~lockFile.exists \/ ~procAlive)
    /\ [][~procAlive' => lockFile' = lockFile]_vars

\* C8 witness: after a stop request every loop has ended and the lock file
\* is gone.
C8_Witness ==
    /\ procAlive
    /\ stopCh = "closed"
    /\ loops # <<>>
    /\ \A l \in LoopIds : loops[l].pc = "done"
    /\ ~lockFile.exists
    /\ launched > 0

\* A Stop call closed the stop channel and has returned.
StopReturned == stopCh = "closed" /\ MutexFree

\* C9: once Stop has returned, the iteration counter is not incremented and
\* no child is launched.
C9_NoIterationAfterStop ==
    [][StopReturned
        => /\ launched' = launched
           /\ session'.Iteration <= session.Iteration]_vars

\* C10: once Stop has returned, no child of this orchestrator is running.
C10_NoChildAfterStop == StopReturned => ~child.alive

\* The loop of the first session has wound down after a Stop call returned.
\* A session that is still running then was created after that Stop call,
\* which found no session to mark.
WoundDown ==
    /\ procAlive
    /\ starts = 1
    /\ StopReturned
    /\ loops # <<>>
    /\ \A l \in LoopIds : loops[l].pc = "done"
    /\ session.Status # "running"

\* C11: when the loop has wound down after a stop request, the session
\* status in memory and in the session file is interrupted, whatever the
\* killed iteration was classified as and whatever the iteration counter is.
C11_StaysInterrupted ==
    WoundDown => /\ session.Status = "interrupted"
                 /\ sessionFile.Status = "interrupted"

\* C12: the status of a session changes only from running, and only to
\* completed, interrupted or failed; a session that is completed,
\* interrupted or failed keeps its status.
C12_StatusOneWay ==
    [][(session'.ID = session.ID /\ session'.Status # session.Status)
        => /\ session.Status = "running"
           /\ session'.Status \in {"completed", "interrupted", "failed"}]_vars

\* C13: every step of the live process that writes the Session object or
\* the running flag is taken with the orchestrator's mutex held.
C13_WritesUnderMutex ==
    [][(procAlive' /\ (session' # session \/ running' # running))
        => UnderMutex]_vars

\* One of the two stream readers has read a line.
ReaderStep ==
    \/ Len(stdoutLog') > Len(stdoutLog)
    \/ Len(stderrLog') > Len(stderrLog)

\* C14: a step of a stream reader leaves the orchestrator's trace
\* collection o.currentSubagents as it is.
C14_ReadersKeepOut == [][ReaderStep => UNCHANGED currentSubagents]_vars

\* Loop l takes the step that increments the counter and reads PRD.md.
LeavesIncrement(l) ==
    /\ loops[l].pc = "increment"
    /\ l \in DOMAIN loops'
    /\ loops'[l].pc # "increment"

\* The unticked robot lines of a document, and the first of them.
AgentLines(doc) == { i \in DOMAIN doc.lines : doc.lines[i] = "ai" }

FirstAgentLine(doc) ==
    CHOOSE i \in AgentLines(doc) : \A j \in 1..(i - 1) : doc.lines[j] # "ai"

\* C15: whenever PRD.md holds an unticked robot line, the pass selects the
\* first such line in document order as the current task, whatever human,
\* ticked and other lines stand before or after it.
C15_FirstAgentTask ==
    [][\A l \in LoopIds :
        (LeavesIncrement(l) /\ prd.exists /\ AgentLines(prd) # {})
        => /\ loops'[l].pc = "begin"
           /\ loops'[l].currentTask = FirstAgentLine(prd)
           /\ session'.CurrentTask = FirstAgentLine(prd)
           /\ prd.lines[session'.CurrentTask] \notin {"human", "done", "text"}
      ]_vars

\* C15 witness: a human task and a ticked task stand before the selected
\* robot task.
C15_Witness ==
    \E l \in LoopIds :
        /\ loops[l].pc = "begin"
        /\ prd.exists
        /\ prd.lines = <<"human", "done", "ai">>
        /\ session.CurrentTask = 3

\* C16: each pass reads PRD.md as it is then; with a PRD.md that holds no
\* unticked robot line the pass marks the session completed, saves it and
\* ends the loop without launching a child; without PRD.md the pass selects
\* the bootstrap task and goes on to the iteration.
C16_ReReadEachPass ==
    /\ [][\A l \in LoopIds :
            (LeavesIncrement(l) /\ prd.exists /\ AgentLines(prd) = {})
            => /\ session'.Status = "completed"
               /\ sessionFileOk => sessionFile' = session'
               /\ loops'[l].pc = "defer"
               /\ launched' = launched]_vars
    /\ [][\A l \in LoopIds :
            (LeavesIncrement(l) /\ ~prd.exists)
            => /\ session'.CurrentTask = BootstrapTask
               /\ session'.Status = session.Status
               /\ loops'[l].pc = "begin"]_vars
    /\ [][(loops # <<>> /\ \A l \in LoopIds : loops[l].pc \in {"defer", "done"})
            => launched' = launched]_vars

\* C16 witness: the first pass found a task, the agent ticked it off, and
\* the second pass found none and completed the session with one launch.
C16_Witness ==
    \E l \in LoopIds :
        /\ loops[l].pc = "done"
        /\ session.Status = "completed"
        /\ session.Iteration = 2
        /\ launched = 1
        /\ prd.exists
        /\ AgentLines(prd) = {}

\* Loop l takes the step that evaluates the loop condition.
LeavesTop(l) ==
    /\ loops[l].pc = "top"
    /\ l \in DOMAIN loops'
    /\ loops'[l].pc # "top"

\* C17: the iteration counter of a session never exceeds
\* config.MaxIterations and never decreases while the session is running; a
\* loop that finds the counter at the maximum ends; and no more than
\* config.MaxIterations children are launched.
C17_CounterBounded ==
    /\ [](session.Iteration <= config.MaxIterations)
    /\ [](launched <= config.MaxIterations)
    /\ [][(session.Status = "running" /\ session'.ID = session.ID)
            => session'.Iteration >= session.Iteration]_vars
    /\ [][\A l \in LoopIds :
            (LeavesTop(l) /\ session.Iteration = config.MaxIterations)
            => /\ loops'[l].pc = "defer"
               /\ session'.Iteration = session.Iteration]_vars

\* C17 witness: the loop ended with the counter at the maximum after
\* launching that many children.
C17_Witness ==
    /\ loops # <<>>
    /\ \A l \in LoopIds : loops[l].pc = "done"
    /\ session.Iteration = config.MaxIterations
    /\ launched = config.MaxIterations
    /\ session.Status = "completed"

ChildOrLoopWaiting ==
    \/ child.alive
    \/ \E l \in LoopIds : loops[l].pc \in {"stream", "cmdWait", "top"}

\* C19: while a child is running or the loop is waiting, no Stop call is
\* in the middle of its save and writes succeed, the session file holds the
\* iteration, status and current task of the session in memory.
C19_PersistedMatches ==
    (/\ procAlive /\ session # NoSession /\ sessionFileOk
     /\ MutexFree /\ ChildOrLoopWaiting)
    => /\ sessionFile.Iteration = session.Iteration
       /\ sessionFile.Status = session.Status
       /\ sessionFile.CurrentTask = session.CurrentTask

\* C20: with a session file that cannot be written, the pass whose saves
\* fail sends an error message, and every step of the loop goes where the
\* state of the run alone sends it: the pass goes on to the
\* iteration unless no task is left, the settled iteration is followed by
\* the next pass unless it is the third failure in a row, and the loop ends
\* at the top only at the iteration limit or on a stop request.
C20_WriteFailureIgnored ==
    /\ [][\A l \in LoopIds :
            (LeavesIncrement(l) /\ ~sessionFileOk)
            => errorMsgs' > errorMsgs]_vars
    /\ [][\A l \in LoopIds :
            (LeavesIncrement(l) /\ ~sessionFileOk)
            => /\ session'.Iteration = session.Iteration + 1
               /\ loops'[l].pc = IF prd.exists /\ AgentLines(prd) = {}
                                 THEN "defer" ELSE "begin"]_vars
    /\ [][\A l \in LoopIds :
            (LeavesSwitch(l) /\ ~sessionFileOk)
            => loops'[l].pc =
                 IF /\ loops[l].result.Status = "failed"
                    /\ LastFailed(loops[l].settled, FailureLimit - 1)
                 THEN "defer" ELSE "top"]_vars
    /\ [][\A l \in LoopIds :
            (LeavesTop(l) /\ ~sessionFileOk)
            => loops'[l].pc =
                 IF session.Iteration >= config.MaxIterations
                    \/ stopCh = "closed"
                 THEN "defer" ELSE "increment"]_vars

\* Loop l comes out of the launch of its child (os.Create of the log file,
\* o.cmd.Start()) without a child.
LaunchFails(l) ==
    /\ l \in DOMAIN loops'
    /\ \/ loops[l].pc = "begin" /\ loops'[l].pc \notin {"begin", "start"}
       \/ /\ loops[l].pc = "start" /\ loops'[l].pc # "start"
          /\ launched' = launched

\* C21: an iteration whose log file cannot be created or whose child cannot
\* be started is classified failed at once, with no child launched and no
\* wait for a reader, and when it is settled it adds one to the failure
\* streak and ends the loop with a failed session if it is the third
\* failure in a row.
C21_LaunchFailureFails ==
    /\ [][\A l \in LoopIds :
            LaunchFails(l)
            => /\ loops'[l].pc = "switch"
               /\ loops'[l].result.Status = "failed"
               /\ ~loops'[l].started
               /\ ~loops'[l].stdoutDone /\ ~loops'[l].stderrDone
               /\ child' = child]_vars
    /\ [][\A l \in LoopIds :
            (LeavesSwitch(l) /\ ~loops[l].started)
            => /\ loops'[l].consecutiveFailures
                    = loops[l].consecutiveFailures + 1
               /\ loops'[l].settled = Append(loops[l].settled, "failed")
               /\ loops'[l].consecutiveFailures >= FailureLimit
                    => /\ session'.Status = "failed"
                       /\ loops'[l].pc = "defer"]_vars

\* C21 witness: three iterations in a row could not launch their child, and
\* the session is failed without any child having run.
C21_Witness ==
    \E l \in LoopIds :
        /\ loops[l].settled = <<"failed", "failed", "failed">>
        /\ launched = 0
        /\ session.Status = "failed"
        /\ loops[l].pc = "defer"

\* C22: whatever the child prints, lines of 1 MB included, a reader ends
\* only at the end of its stream, and no child is left blocked in a write
\* that no reader will take, so that the iteration always gets to its
\* classification.
C22_ReadersDrain ==
    /\ \A l \in LoopIds :
        (loops[l].pc = "stream"
         /\ (loops[l].stdoutDone \/ loops[l].stderrDone))
        => ~child.open
    /\ ~child.stuck

\* The stdout reader of loop l takes one more line.
ReadsStdoutLine(l) ==
    /\ l \in DOMAIN loops'
    /\ loops[l].pc = "stream"
    /\ Len(stdoutLog') = Len(stdoutLog) + 1

\* C23: when the stdout reader takes a line the backend cannot parse, the
\* line is sent on whole and unprefixed as one raw output message, each
\* completion flag is raised if the line holds its marker, no trace
\* changes, the iteration is not classified by it and the reader is not
\* done: it waits for the next line.
C23_UnparsedLineGoesOn ==
    [][\A l \in LoopIds :
        (ReadsStdoutLine(l) /\ ~ParseOk(stdoutLog'[Len(stdoutLog')]))
        => LET line == stdoutLog'[Len(stdoutLog')] IN
           /\ Len(sent'.stdout) = Len(sent.stdout) + 1
           /\ sent'.stdout[Len(sent'.stdout)] =
                [msg |-> "OutputMsg",
                 Content |-> [prefix |-> "", part |-> "line", of |-> line],
                 Raw |-> TRUE]
           /\ loops'[l].completionDetected
                = (loops[l].completionDetected \/ line.complete)
           /\ loops'[l].blockedDetected
                = (loops[l].blockedDetected \/ line.blocked)
           /\ currentSubagents' = currentSubagents
           /\ loops'[l].pc = "stream"
           /\ loops'[l].result.Status = ""
           /\ ~loops'[l].stdoutDone]_vars

\* C23 witness: an unparsed line without marker was followed by an unparsed
\* line with the COMPLETE marker, both were sent on raw, and the iteration
\* is classified complete.
C23_Witness ==
    \E l \in LoopIds :
        /\ Classified(l)
        /\ Len(stdoutLog) = 2
        /\ ~stdoutLog[1].json /\ ~stdoutLog[1].complete
        /\ ~stdoutLog[1].blocked
        /\ ~stdoutLog[2].json /\ stdoutLog[2].complete
        /\ Len(sent.stdout) = 2
        /\ sent.stdout[1].Raw /\ sent.stdout[1].Content.of = stdoutLog[1]
        /\ sent.stdout[2].Raw /\ sent.stdout[2].Content.of = stdoutLog[2]
        /\ loops[l].result.Status = "complete"

\* The markers anywhere in the iteration's stderr.
StderrSawComplete == \E i \in DOMAIN stderrLog : stderrLog[i].of.complete

StderrSawBlocked == \E i \in DOMAIN stderrLog : stderrLog[i].of.blocked

\* C24: every stderr line the reader takes is written to the log and sent
\* on as a raw output message, both with the "[stderr] " prefix, without
\* any other effect on the iteration; and a classified iteration is
\* complete if the COMPLETE marker was in its stdout text or anywhere in
\* its stderr, otherwise blocked if the BLOCKED marker was, otherwise
\* failed.
C24_StderrScanned ==
    /\ [][\A l \in LoopIds :
            (/\ l \in DOMAIN loops'
             /\ loops[l].pc = "stream"
             /\ Len(stderrLog') = Len(stderrLog) + 1)
            => LET logged == stderrLog'[Len(stderrLog')] IN
               /\ logged.prefix = "[stderr] "
               /\ sent'.stderr = Append(sent.stderr,
                    [msg |-> "OutputMsg", Content |-> logged, Raw |-> TRUE])
               /\ currentSubagents' = currentSubagents
               /\ loops'[l].pc = "stream"
               /\ loops'[l].result = loops[l].result]_vars
    /\ [](\A l \in LoopIds :
            (Classified(l) /\ loops[l].started)
            => loops[l].result.Status =
                 IF SawComplete \/ StderrSawComplete THEN "complete"
                 ELSE IF SawBlocked \/ StderrSawBlocked THEN "blocked"
                 ELSE "failed")

\* The trace has come to its end.
Ended(t) == t.EndedAt # 0

\* C25: in o.currentSubagents, and in the traces handed over with an
\* iteration's result, a trace has an end time exactly when its status is
\* complete or error, whatever tool events were read.
C25_EndTimeIffDone ==
    /\ \A i \in DOMAIN currentSubagents :
        Ended(currentSubagents[i])
            <=> currentSubagents[i].Status \in {"complete", "error"}
    /\ \A l \in LoopIds : \A i \in DOMAIN loops[l].result.Subagents :
        Ended(loops[l].result.Subagents[i])
            <=> loops[l].result.Subagents[i].Status \in {"complete", "error"}

\* C25 witness: of two traces one came to its end, complete or in error,
\* and one is still running without end time.
C25_Witness ==
    /\ Len(currentSubagents) = 2
    /\ \E i, k \in DOMAIN currentSubagents :
        /\ currentSubagents[i].Status \in {"complete", "error"}
        /\ Ended(currentSubagents[i])
        /\ currentSubagents[k].Status = "running"
        /\ ~Ended(currentSubagents[k])

\* The stdout reader of loop l takes a tool-end event.
ReadsToolEnd(l) ==
    /\ ReadsStdoutLine(l)
    /\ ParseOk(stdoutLog'[Len(stdoutLog')])
    /\ stdoutLog'[Len(stdoutLog')].evType = "tool_end"

\* C26: when a tool-end event is read whose id a trace of the iteration
\* carries, the trace with that id (the first, should there be several)
\* gets the time of the event as end time, the time since its start as
\* duration, the event's content cut to 200 characters as output, and the
\* status error if the event's error flag is set and complete otherwise;
\* the trace as it is then is sent on, and no other trace changes.
C26_ToolEndCompletes ==
    [][\A l \in LoopIds :
        LET ids == Matching(currentSubagents,
                            stdoutLog'[Len(stdoutLog')].toolID) IN
        (ReadsToolEnd(l) /\ ids # {})
        => LET line == stdoutLog'[Len(stdoutLog')]
               i == SetMin(ids)
               old == currentSubagents[i]
               new == currentSubagents'[i]
           IN
           /\ Len(currentSubagents') = Len(currentSubagents)
           /\ \A j \in DOMAIN currentSubagents :
                j # i => currentSubagents'[j] = currentSubagents[j]
           /\ new.ID = old.ID /\ new.StartedAt = old.StartedAt
           /\ new.EndedAt = Len(stdoutLog')
           /\ new.Duration = new.EndedAt - new.StartedAt
           /\ new.Output.len <= OutputLimit
           /\ new.Output =
                IF line.outLen <= OutputLimit
                THEN [len |-> line.outLen, kept |-> line.outLen,
                      dots |-> FALSE]
                ELSE [len |-> OutputLimit, kept |-> OutputLimit - 3,
                      dots |-> TRUE]
           /\ new.Status = IF line.isError THEN "error" ELSE "complete"
           /\ sent'.stdout = Append(sent.stdout,
                                    [msg |-> "SubagentMsg", Trace |-> new])
      ]_vars

\* C26 witness: a tool was started on the first line and ended in error,
\* with an output of more than 200 characters, on the second.
C26_Witness ==
    /\ Len(stdoutLog) = 2
    /\ stdoutLog[1].evType = "tool_start"
    /\ stdoutLog[2].evType = "tool_end"
    /\ stdoutLog[2].toolID = stdoutLog[1].toolID
    /\ stdoutLog[2].outLen > OutputLimit
    /\ Len(currentSubagents) = 1
    /\ currentSubagents[1].Status = "error"
    /\ currentSubagents[1].EndedAt = 2
    /\ currentSubagents[1].Duration = 1
    /\ currentSubagents[1].Output.len = OutputLimit
    /\ Len(sent.stdout) = 2
    /\ sent.stdout[2].Trace = currentSubagents[1]

\* C27: when a tool-end event is read whose id no trace of the iteration
\* carries, o.currentSubagents stays as it is and nothing is sent.
C27_UnmatchedEndNoOp ==
    [][\A l \in LoopIds :
        (/\ ReadsToolEnd(l)
         /\ Matching(currentSubagents,
                     stdoutLog'[Len(stdoutLog')].toolID) = {})
        => /\ currentSubagents' = currentSubagents
           /\ sent' = sent]_vars

\* C27 witness: after the start of a tool, a tool-end event with another id
\* was read; the one trace is still running and only its start was sent.
C27_Witness ==
    /\ Len(stdoutLog) = 2
    /\ stdoutLog[1].evType = "tool_start"
    /\ stdoutLog[2].evType = "tool_end"
    /\ stdoutLog[2].toolID # stdoutLog[1].toolID
    /\ Len(currentSubagents) = 1
    /\ currentSubagents[1].Status = "running"
    /\ Len(sent.stdout) = 1

\* The tool-start lines of the iteration's stdout so far.
ToolStarts ==
    { k \in DOMAIN stdoutLog :
        ParseOk(stdoutLog[k]) /\ stdoutLog[k].evType = "tool_start" }

\* Every trace stems from a tool-start line of the current iteration, and
\* every such line has its trace.
OwnTraces(traces) ==
    /\ Len(traces) = Cardinality(ToolStarts)
    /\ \A i \in DOMAIN traces :
        /\ traces[i].StartedAt \in ToolStarts
        /\ traces[i].ID = stdoutLog[traces[i].StartedAt].toolID
        /\ Ended(traces[i]) =>
            /\ traces[i].EndedAt \in DOMAIN stdoutLog
            /\ stdoutLog[traces[i].EndedAt].evType = "tool_end"

\* C28: runIteration empties o.currentSubagents before anything else of
\* the iteration happens; while the iteration runs the collection holds
\* only traces started, and ended, by events of this iteration's output,
\* and the result of the iteration hands over exactly those.
C28_TracesPerIteration ==
    /\ [][\A l \in LoopIds :
            (l \in DOMAIN loops' /\ loops[l].pc = "begin"
             /\ loops'[l].pc # "begin")
            => currentSubagents' = <<>>]_vars
    /\ [](\A l \in LoopIds :
            loops[l].pc \in {"start", "stream", "cmdWait"}
            => OwnTraces(currentSubagents))
    /\ [](\A l \in LoopIds :
            (Classified(l) /\ loops[l].started)
            => /\ loops[l].result.Subagents = currentSubagents
               /\ OwnTraces(loops[l].result.Subagents))

\* C28 witness: in the second iteration a tool-end event was read, and
\* there was no trace for it to complete.
C28_Witness ==
    \E l \in LoopIds :
        /\ Len(loops[l].settled) = 1
        /\ session.Iteration = 2
        /\ loops[l].pc = "stream"
        /\ Len(stdoutLog) = 1
        /\ stdoutLog[1].evType = "tool_end"
        /\ currentSubagents = <<>>
        /\ sent.stdout = <<>>

\* C29: no two traces of o.currentSubagents have the same ID.
C29_UniqueTraceIds ==
    \A i, j \in DOMAIN currentSubagents :
        currentSubagents[i].ID = currentSubagents[j].ID => i = j

\* C30: every line of backend variant A that is a JSON event reaches the
\* orchestrator with the normalized type of the mapping table: assistant
\* gives message, tool_use gives tool_start, tool_result gives tool_end,
\* error gives error, any other type gives unknown; a line that is not
\* JSON is left raw.
C30_VariantAMapping ==
    \A k \in DOMAIN stdoutLog :
        LET e == stdoutLog[k] IN
        /\ e.json =>
            /\ e.wireType = "assistant" => e.evType = "message"
            /\ e.wireType = "tool_use" => e.evType = "tool_start"
            /\ e.wireType = "tool_result" => e.evType = "tool_end"
            /\ e.wireType = "error" => e.evType = "error"
            /\ e.wireType \notin {"assistant", "tool_use", "tool_result",
                                  "error"} => e.evType = "unknown"
        /\ ~e.json => e.evType = "raw"

\* C30 witness: a child printed a tool_use, a tool_result and an event of
\* a type outside the table, and they arrived as tool_start, tool_end and
\* unknown.
C30_Witness ==
    /\ Len(stdoutLog) = 3
    /\ stdoutLog[1].wireType = "tool_use"
    /\ stdoutLog[1].evType = "tool_start"
    /\ stdoutLog[2].wireType = "tool_result"
    /\ stdoutLog[2].evType = "tool_end"
    /\ stdoutLog[3].wireType = "system"
    /\ stdoutLog[3].evType = "unknown"

\* C31: every line of backend variant B that is a JSON event reaches the
\* orchestrator with the normalized type of the mapping table: item.started
\* with a command_execution or tool_call item gives tool_start;
\* item.completed gives message with an agent_message item and tool_end
\* with a command_execution or tool_call item, the error flag being set
\* exactly when the item's status is "error"; turn.completed gives
\* turn_complete, error gives error, and everything else gives unknown.
C31_VariantBMapping ==
    \A k \in DOMAIN stdoutLog :
        LET e == stdoutLog[k]
            tool == e.wireItem \in {"command_execution", "tool_call"}
        IN
        e.json =>
            /\ e.evType =
                 IF e.wireType = "item.started" /\ tool THEN "tool_start"
                 ELSE IF e.wireType = "item.completed"
                         /\ e.wireItem = "agent_message" THEN "message"
                 ELSE IF e.wireType = "item.completed" /\ tool
                 THEN "tool_end"
                 ELSE IF e.wireType = "turn.completed" THEN "turn_complete"
                 ELSE IF e.wireType = "error" THEN "error"
                 ELSE "unknown"
            /\ e.evType = "tool_end"
                 => (e.isError <=> e.wireStatus = "error")

\* C31 witness: a child printed the start of a command, its completion
\* with status error, and the completion of a reasoning item, and they
\* arrived as tool_start, tool_end with the error flag, and unknown.
C31_Witness ==
    /\ Len(stdoutLog) = 3
    /\ stdoutLog[1].wireType = "item.started"
    /\ stdoutLog[1].wireItem = "command_execution"
    /\ stdoutLog[1].evType = "tool_start"
    /\ stdoutLog[2].wireType = "item.completed"
    /\ stdoutLog[2].wireStatus = "error"
    /\ stdoutLog[2].evType = "tool_end" /\ stdoutLog[2].isError
    /\ stdoutLog[3].wireItem = "reasoning"
    /\ stdoutLog[3].evType = "unknown"

\* The key the summary is to be taken from.
SummaryKey(input) ==
    IF input.command # Absent THEN "command"
    ELSE IF input.file_path # Absent THEN "file_path"
    ELSE IF input.prompt # Absent THEN "prompt"
    ELSE ""

Occurs(token, text) ==
    \E i \in 0..Len(text) :
        /\ i + Len(token) <= Len(text)
        /\ text = SubSeq(text, 1, i) \o token
                    \o SubSeq(text, i + Len(token) + 1, Len(text))

\* C33: for every line the reader scanned, each completion flag of the line
\* is raised exactly when its marker occurs in the line as a contiguous
\* substring, and the second copy of the two functions gives the same
\* answers; the iteration is classified by these flags.
C33_TokenIsSubstring ==
    /\ \A k \in DOMAIN stdoutLog :
        LET line == stdoutLog[k] IN
        /\ line.complete <=> Occurs(CompletionToken, line.text)
        /\ line.blocked <=> Occurs(BlockedToken, line.text)
        /\ AltContainsCompletionToken(line.text) <=> line.complete
        /\ AltContainsBlockedToken(line.text) <=> line.blocked
    /\ \A l \in LoopIds :
        (Classified(l) /\ loops[l].started /\ stdoutLog # <<>>)
        => loops[l].result.Status =
             IF Occurs(CompletionToken, stdoutLog[1].text) THEN "complete"
             ELSE IF Occurs(BlockedToken, stdoutLog[1].text) THEN "blocked"
             ELSE "failed"

\* C33 witness: the COMPLETE marker stood in the middle of a longer line,
\* with characters before and after it, and the iteration is complete.
C33_Witness ==
    \E l \in LoopIds :
        /\ Classified(l)
        /\ Len(stdoutLog) = 1
        /\ Len(stdoutLog[1].text) = 5
        /\ SubSeq(stdoutLog[1].text, 2, 4) = CompletionToken
        /\ stdoutLog[1].complete
        /\ loops[l].result.Status = "complete"

\* C34: for any sequence of Start and Stop calls on one orchestrator, Stop
\* never closes a stop channel that is already closed, so it never panics.
C34_StopClosesOnce ==
    [][Stop => ~(running /\ stopCh = "closed")]_vars

\* A step with which Start returns an error from initSession: the lock is
\* held by a live process, or the first saveSession failed.
StartFails ==
    /\ startPc \in {"check", "create"}
    /\ startPc' = "idle"
    /\ procAlive'

\* C35: when Start returns an error from session initialisation, the running
\* flag is false, so a later Start is not rejected and a later Stop does
\* nothing.
C35_FailedStartNotRunning ==
    [][StartFails => ~running']_vars

\* C36: when Start returns an error, also when the first write of the
\* session file failed after the lock file was written, no lock file that
\* names this process is left on disk.
C36_FailedStartLeavesNoLock ==
    [][StartFails => ~(lockFile'.exists /\ lockFile'.pid = SelfPID)]_vars

\* A trace whose status is complete or error.
Finished(t) == t.Status \in {"complete", "error"}

\* C37: once a trace is complete or error, no later event of the same
\* iteration changes its status, end time, duration or output.
C37_FinishedTraceFrozen ==
    [][\A i \in DOMAIN currentSubagents :
          (/\ Finished(currentSubagents[i])
           /\ Len(currentSubagents') >= Len(currentSubagents))
          => /\ currentSubagents'[i].Status = currentSubagents[i].Status
             /\ currentSubagents'[i].EndedAt = currentSubagents[i].EndedAt
             /\ currentSubagents'[i].Duration = currentSubagents[i].Duration
             /\ currentSubagents'[i].Output = currentSubagents[i].Output]_vars

\* C38: a child is launched only when no child launched before it is still
\* alive, for any sequence of iterations and of Start and Stop calls.
C38_OneChildAlive ==
    [][launched' > launched => ~child.alive]_vars

\* C38 witness: the second child is alive; it was launched by the loop of
\* the first Start after a Stop and a second Start, whose loop also exists.
C38_Witness ==
    /\ procAlive
    /\ starts = 2
    /\ Len(loops) = 2
    /\ stopCh = "closed"
    /\ launched = 2
    /\ child.alive
    /\ loops[1].pc = "stream"

\* The statuses with which a session is over.
SessionOver == {"completed", "failed", "interrupted"}

\* C39: with a finite iteration limit and children that exit, every loop
\* that Start spawned ends with its stopped notification, and when a loop
\* sends it the session status is completed, failed or interrupted.
C39_LoopTerminates ==
    /\ \A l \in 1..2 :
           (l \in LoopIds) ~> (~procAlive \/ (l \in LoopIds /\ loops[l].pc = "done"))
    /\ [][\A l \in LoopIds :
             (loops[l].pc = "defer" /\ procAlive' /\ loops'[l].pc = "done")
             => session.Status \in SessionOver]_vars

====
